---- MODULE Spec2Model ----
(***************************************************************************)
(* A model of the URI value type of pathlib_next (src/pathlib_next/uri):   *)
(* lazy parsing, multi-argument join, formatting, equality, relative_to    *)
(* and the with_* derivations, with the join loop of the older PureUri     *)
(* (src/uripath/uri.py) beside it.  uritools and pathlib.PurePosixPath are *)
(* modelled by what the calls made on them do.  The _posixpath slot is not *)
(* kept: the PosixPathname of a path is computed where it is used.         *)
(*                                                                         *)
(* Python strings are sequences of one-character strings, so that parsing, *)
(* percent-coding and formatting are computed character by character.      *)
(* Python's None is the value None below (a one-element sequence holding a *)
(* marker that is no character); an absent port is NoPort.                 *)
(***************************************************************************)
EXTENDS Integers, Sequences, FiniteSets, TLC

\* ------------------------------------------------------------------------
\* Characters and strings
\* ------------------------------------------------------------------------

LOWER == <<"a","b","c","d","e","f","g","h","i","j","k","l","m",
           "n","o","p","q","r","s","t","u","v","w","x","y","z">>
UPPER == <<"A","B","C","D","E","F","G","H","I","J","K","L","M",
           "N","O","P","Q","R","S","T","U","V","W","X","Y","Z">>
DIGITS == <<"0","1","2","3","4","5","6","7","8","9">>

Range(f) == {f[i] : i \in DOMAIN f}

ALPHA == Range(LOWER) \cup Range(UPPER)
DIGIT == Range(DIGITS)
UNRESERVED == ALPHA \cup DIGIT \cup {"-", ".", "_", "~"}
SUB_DELIMS == {"!", "$", "&", "'", "(", ")", "*", "+", ",", ";", "="}

None == <<"None">>
NoPort == -1

EMPTY == <<>>

\* bool(x) of a str-or-None value
Truthy(s) == s # None /\ s # EMPTY

\* x or ""
OrEmpty(s) == IF Truthy(s) THEN s ELSE EMPTY

startswith(s, p) == Len(p) <= Len(s) /\ SubSeq(s, 1, Len(p)) = p
endswith(s, p) == Len(p) <= Len(s) /\ SubSeq(s, Len(s) - Len(p) + 1, Len(s)) = p

\* index of the first (last) character of s that is in C, 0 when there is none
FirstIn(s, C) ==
    LET I == {i \in 1..Len(s) : s[i] \in C}
    IN  IF I = {} THEN 0 ELSE CHOOSE i \in I : \A j \in I : i <= j
LastIn(s, C) ==
    LET I == {i \in 1..Len(s) : s[i] \in C}
    IN  IF I = {} THEN 0 ELSE CHOOSE i \in I : \A j \in I : j <= i

Tail_(s, i) == SubSeq(s, i, Len(s))

\* str.split(sep) for a one-character separator
RECURSIVE split(_, _)
split(s, sep) ==
    LET i == FirstIn(s, {sep})
    IN  IF i = 0 THEN <<s>>
        ELSE <<SubSeq(s, 1, i - 1)>> \o split(Tail_(s, i + 1), sep)

\* sep.join(segs)
RECURSIVE join(_, _)
join(segs, sep) ==
    IF segs = <<>> THEN EMPTY
    ELSE IF Len(segs) = 1 THEN segs[1]
    ELSE segs[1] \o sep \o join(Tail(segs), sep)

\* str.lower()
LowerChar(c) ==
    IF c \in Range(UPPER)
    THEN LOWER[CHOOSE i \in DOMAIN UPPER : UPPER[i] = c]
    ELSE c
lower(s) == [i \in DOMAIN s |-> LowerChar(s[i])]

\* int(digits)
RECURSIVE int(_)
int(s) ==
    IF s = EMPTY THEN 0
    ELSE 10 * int(SubSeq(s, 1, Len(s) - 1))
         + ((CHOOSE i \in DOMAIN DIGITS : DIGITS[i] = s[Len(s)]) - 1)

\* str(n) for n >= 0
RECURSIVE str(_)
str(n) ==
    IF n < 10 THEN <<DIGITS[n + 1]>>
    ELSE str(n \div 10) \o <<DIGITS[(n % 10) + 1]>>

\* ------------------------------------------------------------------------
\* uritools: percent-coding
\* ------------------------------------------------------------------------

\* The escapes of the characters that are neither unreserved nor sub-delims
\* in the model's alphabet: <<character, first hex digit, second hex digit>>.
PCT == << <<"?", "3", "F">>, <<"#", "2", "3">>, <<"/", "2", "F">>,
          <<"%", "2", "5">>, <<"@", "4", "0">>, <<":", "3", "A">> >>

UpperHex(c) == IF c \in Range(LOWER)
               THEN UPPER[CHOOSE i \in DOMAIN LOWER : LOWER[i] = c] ELSE c

PctIndex(h1, h2) ==
    LET I == {i \in DOMAIN PCT : PCT[i][2] = UpperHex(h1) /\ PCT[i][3] = UpperHex(h2)}
    IN  IF I = {} THEN 0 ELSE CHOOSE i \in I : TRUE

\* uritools.uridecode: every "%XY" with XY a known escape becomes its
\* character, anything else is kept as written
RECURSIVE uridecode(_)
uridecode(s) ==
    IF s = EMPTY THEN EMPTY
    ELSE IF s[1] = "%" /\ Len(s) >= 3 /\ PctIndex(s[2], s[3]) # 0
         THEN <<PCT[PctIndex(s[2], s[3])][1]>> \o uridecode(Tail_(s, 4))
         ELSE <<s[1]>> \o uridecode(Tail(s))

\* uritools.uriencode(s, safe): unreserved and safe characters are kept,
\* every other character becomes its "%XY" escape
EncodeChar(c, safe) ==
    IF c \in UNRESERVED \cup safe THEN <<c>>
    ELSE LET I == {i \in DOMAIN PCT : PCT[i][1] = c}
         IN  IF I = {} THEN <<c>>
             ELSE LET i == CHOOSE i \in I : TRUE
                  IN  <<"%", PCT[i][2], PCT[i][3]>>
RECURSIVE uriencode(_, _)
uriencode(s, safe) ==
    IF s = EMPTY THEN EMPTY
    ELSE EncodeChar(s[1], safe) \o uriencode(Tail(s), safe)

SAFE_USERINFO == SUB_DELIMS \cup {":"}
SAFE_HOST == SUB_DELIMS
SAFE_PATH == SUB_DELIMS \cup {":", "@", "/"}
SAFE_QUERY == SUB_DELIMS \cup {":", "@", "/", "?"}
SAFE_FRAGMENT == SUB_DELIMS \cup {":", "@", "/", "?"}

\* ------------------------------------------------------------------------
\* uritools.urisplit and the SplitResult getters
\* ------------------------------------------------------------------------

SCHEME_CHARS == ALPHA \cup DIGIT \cup {"+", ".", "-"}

\* the prefix of s before its first character in C, all of s when none is
upto(s, C) ==
    LET i == FirstIn(s, C)
    IN  IF i = 0 THEN s ELSE SubSeq(s, 1, i - 1)

\* the suffix of s from its first character in C on, empty when none is
from(s, C) ==
    LET i == FirstIn(s, C)
    IN  IF i = 0 THEN EMPTY ELSE Tail_(s, i)

\* The URI regular expression of uritools, group by group:
\*   (?:([A-Za-z][A-Za-z0-9+.-]*):)?(?://([^/?#]*))?([^?#]*)(?:\?([^#]*))?(?:#(.*))?
\* scheme_end is the index of the ":" that ends the scheme, 0 without one.
scheme_end(uri) ==
    LET c == FirstIn(uri, {":"})
    IN  IF c > 1 /\ uri[1] \in ALPHA /\ \A i \in 2..(c - 1) : uri[i] \in SCHEME_CHARS
        THEN c ELSE 0

\* the last group, from what follows the query
re_fragment(scheme, authority, path, query, rest) ==
    [scheme |-> scheme, authority |-> authority, path |-> path, query |-> query,
     fragment |-> IF rest # EMPTY THEN Tail(rest) ELSE None]

\* (?:\?([^#]*))? from what follows the path
re_query(scheme, authority, path, rest) ==
    IF rest # EMPTY /\ rest[1] = "?"
    THEN re_fragment(scheme, authority, path, upto(Tail(rest), {"#"}),
                     from(rest, {"#"}))
    ELSE re_fragment(scheme, authority, path, None, rest)

\* ([^?#]*) from what follows the authority
re_path(scheme, authority, rest) ==
    re_query(scheme, authority, upto(rest, {"?", "#"}),
             from(rest, {"?", "#"}))

\* (?://([^/?#]*))? from what follows the scheme
re_authority(scheme, rest) ==
    IF startswith(rest, <<"/", "/">>)
    THEN re_path(scheme, upto(Tail_(rest, 3), {"/", "?", "#"}),
                 from(Tail_(rest, 3), {"/", "?", "#"}))
    ELSE re_path(scheme, None, rest)

\* uritools.urisplit: the five groups, None for a group that took no part
urisplit(uri) ==
    IF scheme_end(uri) # 0
    THEN re_authority(SubSeq(uri, 1, scheme_end(uri) - 1), Tail_(uri, scheme_end(uri) + 1))
    ELSE re_authority(None, uri)

\* str.rpartition(sep) for a one-character separator
rpartition(s, sep) ==
    LET i == LastIn(s, {sep})
    IN  IF i = 0 THEN <<EMPTY, EMPTY, s>>
        ELSE <<SubSeq(s, 1, i - 1), <<sep>>, Tail_(s, i + 1)>>

\* str.lstrip(DIGITS) is not empty
has_nondigit(s) == \E i \in DOMAIN s : s[i] \notin DIGIT

\* SplitResult.userinfo
split_userinfo(parsed) ==
    IF parsed.authority = None THEN None
    ELSE IF rpartition(parsed.authority, "@")[2] = EMPTY THEN None
    ELSE rpartition(parsed.authority, "@")[1]

\* host, _, port = hostinfo.rpartition(":")
host_of(hostinfo, hp) == IF has_nondigit(hp[3]) THEN hostinfo ELSE hp[1]

\* SplitResult.host
split_host(parsed) ==
    IF parsed.authority = None THEN None
    ELSE host_of(rpartition(parsed.authority, "@")[3],
                 rpartition(rpartition(parsed.authority, "@")[3], ":"))

\* _, present, port = authority.rpartition(":")
port_of(ap) == IF ap[2] # EMPTY /\ ~has_nondigit(ap[3]) THEN ap[3] ELSE None

\* SplitResult.port
split_port(parsed) ==
    IF parsed.authority = None THEN None ELSE port_of(rpartition(parsed.authority, ":"))

\* s and f(s), None staying None
decoded(s) == IF s = None THEN None ELSE uridecode(s)

getscheme(parsed) == IF parsed.scheme = None THEN None ELSE lower(parsed.scheme)

getuserinfo(parsed) == decoded(split_userinfo(parsed))

\* registered names only: the hosts of the model are no IP literals
lower_decoded(s) == IF s = None THEN None ELSE lower(uridecode(s))
gethost(parsed) == lower_decoded(split_host(parsed))

port_int(s) == IF Truthy(s) THEN int(s) ELSE NoPort
getport(parsed) == port_int(split_port(parsed))

\* SplitResult.__remove_dot_segments (RFC 3986 5.2.4)
RECURSIVE dotfold(_, _)
dotfold(segs, pseg) ==
    IF segs = <<>> THEN pseg
    ELSE LET s == Head(segs)
         IN  dotfold(Tail(segs),
                 IF s = <<".">> THEN pseg
                 ELSE IF s # <<".", ".">> THEN Append(pseg, s)
                 ELSE IF Len(pseg) = 1 /\ pseg[1] = EMPTY THEN pseg
                 ELSE IF pseg # <<>> /\ pseg[Len(pseg)] # <<".", ".">>
                      THEN SubSeq(pseg, 1, Len(pseg) - 1)
                 ELSE Append(pseg, s))

\* the adjustments after the fold: a trailing "/." or "/.." leaves a trailing
\* "/", and a path reduced to "" becomes "./"
dot_trailing(segs, pseg) ==
    IF segs[Len(segs)] \in {<<".">>, <<".", ".">>} THEN Append(pseg, EMPTY) ELSE pseg
dot_leading(path, pseg) ==
    IF path # EMPTY /\ Len(pseg) = 1 /\ pseg[1] = EMPTY THEN <<<<".">>>> \o pseg ELSE pseg
dot_segments(path, segs) ==
    join(dot_leading(path, dot_trailing(segs, dotfold(segs, <<>>))), <<"/">>)

remove_dot_segments(path) == dot_segments(path, split(path, "/"))

\* SplitResult.getpath: the normalized, decoded path
getpath(parsed) == uridecode(remove_dot_segments(parsed.path))

getquery(parsed) == decoded(parsed.query)

getfragment(parsed) == decoded(parsed.fragment)

\* ------------------------------------------------------------------------
\* Source (uri/source.py) and Uri._parse_uri
\* ------------------------------------------------------------------------

Source(scheme, userinfo, host, port) ==
    [scheme |-> scheme, userinfo |-> userinfo, host |-> host, port |-> port]

NOSOURCE == Source(None, None, None, NoPort)

\* Source.__bool__
SourceBool(source) == Truthy(source.scheme)

\* the 4-tuple (source, path, query, fragment)
Parts(source, path, query, fragment) ==
    [source |-> source, path |-> path, query |-> query, fragment |-> fragment]

\* _parse_uri taking parsed.path where the code calls parsed.getpath()
parse_split_path(parsed) ==
    Parts(Source(getscheme(parsed), getuserinfo(parsed),
                 OrEmpty(gethost(parsed)), getport(parsed)),
          parsed.path,
          OrEmpty(getquery(parsed)),
          OrEmpty(getfragment(parsed)))

\* the body of Uri._parse_uri, parsed being uritools.urisplit(uri)
parse_split(parsed) ==
    Parts(Source(getscheme(parsed), getuserinfo(parsed),
                 OrEmpty(gethost(parsed)), getport(parsed)),
          getpath(parsed),
          OrEmpty(getquery(parsed)),
          OrEmpty(getfragment(parsed)))

\* Uri._parse_uri
parse_uri(uri) == parse_split(urisplit(uri))

\* ------------------------------------------------------------------------
\* uritools.uricompose, as Uri._format_parsed_parts calls it
\* ------------------------------------------------------------------------

\* the outcome of a call that may raise: err is "" or the exception's class
Ok(v) == [err |-> "", val |-> v]
Raise(e) == [err |-> e, val |-> None]

\* uritools._scheme: the scheme must match [A-Za-z][A-Za-z0-9+.-]*
valid_scheme(scheme) ==
    /\ scheme # EMPTY
    /\ scheme[1] \in ALPHA
    /\ \A i \in DOMAIN scheme : scheme[i] \in SCHEME_CHARS

\* uritools._authority: None when no component is given
compose_authority(userinfo, host, port) ==
    LET ui == IF userinfo = None THEN EMPTY
              ELSE uriencode(userinfo, SAFE_USERINFO) \o <<"@">>
        h  == IF host = None THEN EMPTY ELSE uriencode(lower(host), SAFE_HOST)
        p  == IF port = NoPort THEN EMPTY ELSE <<":">> \o str(port)
    IN  IF userinfo = None /\ host = None /\ port = NoPort THEN None
        ELSE ui \o h \o p

\* uricompose(scheme, userinfo, host, port, path, query, fragment): a
\* component that was not passed is None (NoPort)
uricompose(scheme, userinfo, host, port, path, query, fragment) ==
    LET authority == compose_authority(userinfo, host, port)
        epath == uriencode(path, SAFE_PATH)
        first == split(epath, "/")[1]
        rpath == IF scheme = None /\ authority = None
                    /\ ~startswith(epath, <<"/">>) /\ FirstIn(first, {":"}) # 0
                 THEN <<".", "/">> \o epath ELSE epath
    IN  IF scheme # None /\ ~valid_scheme(scheme) THEN Raise("ValueError")
        ELSE IF authority # None /\ epath # EMPTY /\ ~startswith(epath, <<"/">>)
             THEN Raise("ValueError")
        ELSE IF authority = None /\ startswith(epath, <<"/", "/">>)
             THEN Raise("ValueError")
        ELSE Ok((IF scheme = None THEN EMPTY ELSE lower(scheme) \o <<":">>)
                \o (IF authority = None THEN EMPTY ELSE <<"/", "/">> \o authority)
                \o rpath
                \o (IF query = None THEN EMPTY
                    ELSE <<"?">> \o uriencode(query, SAFE_QUERY))
                \o (IF fragment = None THEN EMPTY
                    ELSE <<"#">> \o uriencode(fragment, SAFE_FRAGMENT)))

\* a dict entry survives "if v" only when truthy
IfV(s) == IF Truthy(s) THEN s ELSE None
IfVPort(p) == IF p = NoPort \/ p = 0 THEN NoPort ELSE p

\* userinfo reduced to what precedes its first ":"
sanitized_userinfo(userinfo) ==
    split(OrEmpty(userinfo), ":")[1]

\* Uri._format_parsed_parts
format_parsed_parts(parts, sanitize) ==
    LET src == parts.source
        ui  == IF sanitize THEN sanitized_userinfo(src.userinfo) ELSE src.userinfo
    IN  IF SourceBool(src)
        THEN uricompose(IfV(src.scheme), IfV(ui), IfV(src.host), IfVPort(src.port),
                        OrEmpty(parts.path), IfV(parts.query), IfV(parts.fragment))
        ELSE uricompose(None, None, None, NoPort,
                        OrEmpty(parts.path), IfV(parts.query), IfV(parts.fragment))

\* ------------------------------------------------------------------------
\* PosixPathname (pathlib.PurePosixPath)
\* ------------------------------------------------------------------------

\* the segments that are neither empty nor "."
RECURSIVE posix_tail(_)
posix_tail(segs) ==
    IF segs = <<>> THEN <<>>
    ELSE IF Head(segs) \in {EMPTY, <<".">>} THEN posix_tail(Tail(segs))
    ELSE <<Head(segs)>> \o posix_tail(Tail(segs))

\* posixpath.splitroot: exactly two leading slashes are kept
posix_root(path) ==
    IF ~startswith(path, <<"/">>) THEN EMPTY
    ELSE IF startswith(path, <<"/", "/">>) /\ ~startswith(path, <<"/", "/", "/">>)
         THEN <<"/", "/">>
    ELSE <<"/">>

PosixPathname(path) == [root |-> posix_root(path), tail |-> posix_tail(split(path, "/"))]

as_posix(pp) ==
    IF pp.root = EMPTY /\ pp.tail = <<>> THEN <<".">>
    ELSE pp.root \o join(pp.tail, <<"/">>)

\* PurePath.relative_to(other): ValueError unless other is self or one of its
\* parents
posix_relative_to(pp, other) ==
    LET o == PosixPathname(other)
    IN  IF o.root = pp.root /\ Len(o.tail) <= Len(pp.tail)
           /\ SubSeq(pp.tail, 1, Len(o.tail)) = o.tail
        THEN Ok([root |-> EMPTY, tail |-> SubSeq(pp.tail, Len(o.tail) + 1, Len(pp.tail))])
        ELSE Raise("ValueError")

\* PurePath.with_name(name), for a valid name
posix_with_name(pp, name) ==
    IF pp.tail = <<>> THEN Raise("ValueError")
    ELSE Ok([pp EXCEPT !.tail = SubSeq(pp.tail, 1, Len(pp.tail) - 1) \o <<name>>])

\* ------------------------------------------------------------------------
\* Uri (pathlib_next/uri/__init__.py) and the older PureUri (uripath/uri.py):
\* construction and lazy parsing
\* ------------------------------------------------------------------------

\* the parts slots of an object that _init has not filled
UNSET == Parts(NOSOURCE, None, None, None)

\* One element of _raw_uris: a str, or a Uri, which is held as the parts its
\* .parts property gives when _load_parts asks for them.
StrItem(text) == [kind |-> "str", s |-> text, parts |-> UNSET]
UriItem(parts) == [kind |-> "uri", s |-> EMPTY, parts |-> parts]

\* __new__ of both classes: every slot is None.  cls is the class; loads
\* counts the calls of _load_parts and forced records a call of _init from
\* outside _load_parts: neither is a slot.
new(cls) ==
    [cls |-> cls, raw |-> <<>>, initiated |-> FALSE, parts |-> UNSET, uri |-> None,
     backend |-> None, loads |-> 0, forced |-> FALSE]

Uri__new__ == new("Uri")

\* bool(uri) of an argument of __init__
ItemBool(item) == item.kind = "uri" \/ item.s # EMPTY

RECURSIVE keep_truthy(_)
keep_truthy(uris) ==
    IF uris = <<>> THEN <<>>
    ELSE IF ItemBool(Head(uris)) THEN <<Head(uris)>> \o keep_truthy(Tail(uris))
    ELSE keep_truthy(Tail(uris))

\* Uri.__init__(self, *uris), and PureUri.__init__, for str and Uri arguments
Uri__init__(self, uris) ==
    IF self.raw # <<>> \/ self.initiated THEN self
    ELSE [self EXCEPT !.raw = keep_truthy(uris)]

\* one argument's (source, path, query, fragment)
item_parts(item) == IF item.kind = "uri" THEN item.parts ELSE parse_uri(item.s)

\* the source kept by the first loop of _load_parts over the arguments' parts
RECURSIVE last_source(_, _)
last_source(ps, source) ==
    IF ps = <<>> THEN source
    ELSE last_source(Tail(ps), IF SourceBool(Head(ps).source) THEN Head(ps).source
                               ELSE source)

\* one round of the loop over reversed(paths) of Uri._load_parts
join_step(path, acc) ==
    IF endswith(path, <<"/">>) THEN path \o acc
    ELSE IF acc # EMPTY THEN path \o <<"/">> \o acc
    ELSE path

\* the loop of Uri._load_parts from paths[i] down, acc being _path
RECURSIVE join_paths_from(_, _, _)
join_paths_from(paths, i, acc) ==
    IF i = 0 THEN acc
    ELSE IF paths[i] = EMPTY THEN join_paths_from(paths, i - 1, acc)
    ELSE IF startswith(join_step(paths[i], acc), <<"/">>) THEN join_step(paths[i], acc)
    ELSE join_paths_from(paths, i - 1, join_step(paths[i], acc))

\* the loop of PureUri._load_parts: an empty path is not skipped
RECURSIVE PureUri_join_paths_from(_, _, _)
PureUri_join_paths_from(paths, i, acc) ==
    IF i = 0 THEN acc
    ELSE IF startswith(join_step(paths[i], acc), <<"/">>) THEN join_step(paths[i], acc)
    ELSE PureUri_join_paths_from(paths, i - 1, join_step(paths[i], acc))

paths_of(ps) == [i \in DOMAIN ps |-> ps[i].path]

\* the else branch of _load_parts, from the arguments' parts
joined_parts_first_query(ps) ==
    Parts(last_source(ps, NOSOURCE),
          join_paths_from(paths_of(ps), Len(ps), EMPTY),
          ps[1].query, ps[1].fragment)
joined_parts(ps) ==
    Parts(last_source(ps, NOSOURCE),
          join_paths_from(paths_of(ps), Len(ps), EMPTY),
          ps[Len(ps)].query, ps[Len(ps)].fragment)

PureUri_joined_parts(ps) ==
    Parts(last_source(ps, NOSOURCE),
          PureUri_join_paths_from(paths_of(ps), Len(ps), EMPTY),
          ps[Len(ps)].query, ps[Len(ps)].fragment)

\* Uri._load_parts, as the parts it hands to _init
load_parts(uris) ==
    IF uris = <<>> THEN Parts(NOSOURCE, EMPTY, None, None)
    ELSE IF Len(uris) = 1 /\ uris[1].kind = "uri" THEN uris[1].parts
    ELSE joined_parts([i \in DOMAIN uris |-> item_parts(uris[i])])

\* PureUri._load_parts
PureUri_load_parts(uris) ==
    IF uris = <<>> THEN Parts(NOSOURCE, EMPTY, None, None)
    ELSE IF Len(uris) = 1 /\ uris[1].kind = "uri" THEN uris[1].parts
    ELSE PureUri_joined_parts([i \in DOMAIN uris |-> item_parts(uris[i])])

\* _init that leaves an initiated object as it is
Uri_init_once(self, parts) ==
    IF self.initiated THEN self ELSE [self EXCEPT !.initiated = TRUE, !.parts = parts]

\* Uri._init
Uri_init(self, parts) == [self EXCEPT !.initiated = TRUE, !.parts = parts]

\* self._load_parts()
loaded(self) == [Uri_init(self, load_parts(self.raw)) EXCEPT !.loads = @ + 1]
PureUri_loaded(self) == [Uri_init(self, PureUri_load_parts(self.raw)) EXCEPT !.loads = @ + 1]

\* an accessor that parses on every read
accessed_always(self) == loaded(self)

\* what the accessors source, path, query and fragment do before they return
\* the slot: _load_parts when the object is not initiated
accessed(self) == IF ~self.initiated THEN loaded(self) ELSE self

PureUri_accessed(self) == IF ~self.initiated THEN PureUri_loaded(self) ELSE self

\* as_uri returning the stored rendering whatever sanitize is
as_uri_cached_any(me, sanitize, uri) ==
    IF me.uri = None
    THEN [self |-> IF uri.err = "" THEN [me EXCEPT !.uri = uri.val] ELSE me, ret |-> uri]
    ELSE [self |-> me, ret |-> Ok(me.uri)]

\* the body of Uri.as_uri on the initiated object me, uri being what
\* _format_parsed_parts gives for its parts: the object after the call and
\* what the call returns or raises
as_uri_of(me, sanitize, uri) ==
    IF me.uri = None \/ sanitize
    THEN [self |-> IF uri.err = "" /\ ~sanitize THEN [me EXCEPT !.uri = uri.val] ELSE me,
          ret  |-> uri]
    ELSE [self |-> me, ret |-> Ok(me.uri)]

as_uri_me(me, sanitize) == as_uri_of(me, sanitize, format_parsed_parts(me.parts, sanitize))

\* Uri.as_uri(sanitize)
as_uri(self, sanitize) == as_uri_me(accessed(self), sanitize)

\* ------------------------------------------------------------------------
\* Operations that build a Uri from others
\* ------------------------------------------------------------------------

\* Python's True and False as a returned value
Bool(v) == IF v THEN <<"True">> ELSE <<"False">>

\* what an operation hands back: the receiver and the argument as the call
\* leaves them, the exception raised ("" when none), the str or bool returned
\* and the Uri returned (UNSET parts when there is none)
Result(self, other, err, val, uri) ==
    [self |-> self, other |-> other, ret |-> [err |-> err, val |-> val], uri |-> uri]

\* Source.get_scheme_cls(schemesmap=None): with a scheme it asks
\* Uri._schemesmap(), which only UriPath defines
get_scheme_cls(source) ==
    IF Truthy(source.scheme) THEN Raise("AttributeError") ELSE Ok(None)

\* UriPath.__new__(cls, *args, findclass=True), uri being Uri(*args) with its
\* parts loaded: the class found is Uri, so the new object is a Uri that
\* _init fills and that __init__ is not called on
UriPath__new__from(uri) ==
    IF get_scheme_cls(uri.parts.source).err # ""
    THEN [err |-> get_scheme_cls(uri.parts.source).err, val |-> Uri__new__]
    ELSE [err |-> "", val |-> Uri_init(Uri__new__, uri.parts)]

UriPath__new__(args) == UriPath__new__from(loaded(Uri__init__(Uri__new__, args)))

\* Uri._from_parsed_parts(self, source, path, query, fragment): cls.__new__(cls)
\* and then _init.  For a UriPath, __new__ is UriPath.__new__ with no
\* argument, which hands back a Uri that _init has filled once already.
from_parsed_parts(me, parts) ==
    Uri_init(IF me.cls = "UriPath" THEN UriPath__new__(<<>>).val ELSE new(me.cls), parts)

\* UriPath.__truediv__(self, key), from what UriPath.__new__ gave: the
\* AttributeError is not one of the exceptions it turns into NotImplemented
truediv_of(me, key, made) ==
    Result(me, key, made.err, None, made.val)

\* self / key, both with their parts loaded by Uri(self, key)
UriPath__truediv__(me, key) ==
    truediv_of(me, key, UriPath__new__(<<UriItem(me.parts), UriItem(key.parts)>>))

\* Uri.with_source
with_source(me, source) ==
    from_parsed_parts(me, Parts(source, me.parts.path, me.parts.query, me.parts.fragment))

\* UriPath.with_source of a class that registers no scheme, inst being what
\* UriPath.__new__(UriPath, source.scheme + ":") gives for a truthy source
UriPath_with_source_in(me, source, inst) ==
    IF ~SourceBool(source)
    THEN Result(me, me, "", None,
                Uri_init(new("UriPath"),
                         Parts(source, me.parts.path, me.parts.query, me.parts.fragment)))
    ELSE IF inst.err # "" THEN Result(me, me, inst.err, None, Uri__new__)
    ELSE Result(me, me, "", None,
                Uri_init(inst.val,
                         Parts(source, me.parts.path, me.parts.query, me.parts.fragment)))

UriPath_with_source(me, source) ==
    UriPath_with_source_in(me, source,
        IF SourceBool(source) THEN UriPath__new__(<<StrItem(source.scheme \o <<":">>)>>)
        ELSE Ok(None))

\* Uri.with_path, with_query, with_fragment
with_path(me, path) ==
    from_parsed_parts(me, Parts(me.parts.source, path, me.parts.query, me.parts.fragment))
with_query(me, query) ==
    from_parsed_parts(me, Parts(me.parts.source, me.parts.path, query, me.parts.fragment))
with_fragment(me, fragment) ==
    from_parsed_parts(me, Parts(me.parts.source, me.parts.path, me.parts.query, fragment))

\* Uri.with_name, named being posixpath.with_name(name)
with_name_of(me, named) ==
    IF named.err # "" THEN Result(me, me, named.err, None, Uri__new__)
    ELSE Result(me, me, "", None, with_path(me, as_posix(named.val)))

with_name(me, name) ==
    with_name_of(me, posix_with_name(PosixPathname(me.parts.path), name))

\* the body of Uri.relative_to, rel being posixpath.relative_to(other.path)
relative_to_of(me, other, rel) ==
    IF SourceBool(me.parts.source) /\ SourceBool(other.parts.source)
       /\ other.parts.source # me.parts.source
    THEN Result(me, other, "ValueError", None, Uri__new__)
    ELSE Result(me, other, "", None,
                from_parsed_parts(me,
                    Parts(NOSOURCE,
                          as_posix(IF rel.err = "" THEN rel.val
                                   ELSE PosixPathname(me.parts.path)),
                          me.parts.query, me.parts.fragment)))

\* Uri.relative_to(other), both with their parts loaded
relative_to(me, other) ==
    relative_to_of(me, other,
                   posix_relative_to(PosixPathname(me.parts.path), other.parts.path))

\* the body of Uri.__eq__, x and y being what self.as_uri() and
\* other.as_uri() gave
eq_of(x, y) ==
    IF y.ret.err # "" THEN Result(x.self, y.self, y.ret.err, None, Uri__new__)
    ELSE IF x.ret.err # "" THEN Result(x.self, y.self, x.ret.err, None, Uri__new__)
    ELSE Result(x.self, y.self, "", Bool(x.ret.val = y.ret.val), Uri__new__)

\* Uri.__eq__(self, other) for a Uri other
Uri__eq__(self, other) == eq_of(as_uri(self, FALSE), as_uri(other, FALSE))

\* ------------------------------------------------------------------------
\* Inputs
\* ------------------------------------------------------------------------

\* the most arguments of one Uri(...) call
MaxArgs == 2

HTTP == <<"h", "t", "t", "p">>
FTP == <<"f", "t", "p">>
USER == <<"u", "s", "e", "r">>
PASSWORD == <<"p", "w">>
USERPW == USER \o <<":">> \o PASSWORD
HOST == <<"g", ".", "c", "o">>

\* A URI as written: its components (None when not written) ...
Written(scheme, userinfo, host, port, path, query, fragment) ==
    [scheme |-> scheme, userinfo |-> userinfo, host |-> host, port |-> port,
     path |-> path, query |-> query, fragment |-> fragment]

\* ... and its text
Text(w) ==
    (IF w.scheme = None THEN EMPTY ELSE w.scheme \o <<":">>)
    \o (IF w.userinfo = None /\ w.host = None /\ w.port = None THEN EMPTY
        ELSE <<"/", "/">>
             \o (IF w.userinfo = None THEN EMPTY ELSE w.userinfo \o <<"@">>)
             \o OrEmpty(w.host)
             \o (IF w.port = None THEN EMPTY ELSE <<":">> \o w.port))
    \o w.path
    \o (IF w.query = None THEN EMPTY ELSE <<"?">> \o w.query)
    \o (IF w.fragment = None THEN EMPTY ELSE <<"#">> \o w.fragment)

\* URIs with a scheme
WRITTEN_SCHEME ==
    { Written(HTTP, USERPW, HOST, <<"8", "0">>, <<"/", "a", "/", "b", "/">>, None, None),
      Written(HTTP, None, HOST, None, <<"/", "a">>, <<"q">>, <<"f">>),
      Written(HTTP, None, HOST, None, EMPTY, None, None),
      Written(FTP, None, HOST, None, <<"/", "a">>, None, None) }

\* URIs with an authority and no scheme (tests/test_uri.py)
WRITTEN_NOSCHEME ==
    { Written(None, USERPW, HOST, <<"8", "0">>, <<"/">>, None, None),
      Written(None, USER, None, None, EMPTY, None, None) }

\* paths alone, with and without a query and a fragment
WRITTEN_PATH ==
    { Written(None, None, None, None, <<"/", "a", "/", "b">>, None, None),
      Written(None, None, None, None, <<"b">>, None, None),
      Written(None, None, None, None, <<"c", "/">>, <<"q">>, <<"f">>),
      Written(None, None, None, None, EMPTY, None, None) }

\* paths with percent-encoded characters and with dot segments
WRITTEN_ENCODED ==
    { Written(HTTP, None, HOST, None,
              <<"/", "%", "3", "F", "q", "/", "%", "2", "3", "f", "/", "%", "2", "F", "e">>,
              None, None),
      Written(None, None, None, None, <<"/", "a", "/", ".", "/", "b">>, None, None),
      Written(None, None, None, None, <<"a", "/", ".", ".", "/", "b">>, None, None) }

WRITTEN == WRITTEN_SCHEME \cup WRITTEN_NOSCHEME \cup WRITTEN_PATH \cup WRITTEN_ENCODED

\* sources handed to with_source and _init
SOURCES ==
    { NOSOURCE,
      Source(HTTP, USERPW, HOST, 80),
      Source(FTP, None, HOST, NoPort),
      Source(None, USER, HOST, NoPort) }

\* what may come first in a call, and what may follow
FIRST_ARGS ==
    {StrItem(Text(w)) : w \in WRITTEN}
    \cup {UriItem(parse_uri(Text(w))) : w \in WRITTEN_SCHEME}
    \cup {UriItem(Parts(src, <<"/", "a">>, <<"q">>, EMPTY)) : src \in SOURCES}
REST_ARGS ==
    {StrItem(Text(w)) : w \in WRITTEN_PATH}
    \cup {StrItem(Text(Written(HTTP, None, HOST, None, <<"/", "a">>, <<"q">>, <<"f">>))),
          UriItem(Parts(NOSOURCE, <<"d">>, None, None))}

\* the parts handed to a second _init
INIT_PARTS ==
    { Parts(Source(FTP, None, HOST, NoPort), <<"/", "z">>, EMPTY, EMPTY),
      Parts(NOSOURCE, <<"z">>, <<"q">>, EMPTY) }

RECURSIVE ArgSeqs(_)
ArgSeqs(n) ==
    IF n = 0 THEN {<<>>}
    ELSE IF n = 1 THEN {<<>>} \cup {<<x>> : x \in FIRST_ARGS}
    ELSE ArgSeqs(n - 1)
         \cup {Append(xs, y) : xs \in {zs \in ArgSeqs(n - 1) : Len(zs) = n - 1},
                               y \in REST_ARGS}

\* ------------------------------------------------------------------------
\* The state: the Uri object a, the Uri object b it is combined with, and
\* the last operation with what it returned
\* ------------------------------------------------------------------------

VARIABLES a, b, out

vars == <<a, b, out>>

\* op: the operation; x: the receiver's parts before it; y: the argument's
\* parts; r: the parts of the Uri it returned; ret: the str it returned, or
\* the exception it raised; hit: the object was initiated when it was called
Out(op, x, y, r, ret, hit) ==
    [op |-> op, x |-> x, y |-> y, r |-> r, ret |-> ret, hit |-> hit]

READS == {"source", "path", "query", "fragment"}

\* a = Uri(*uris): the object as its construction leaves it
Init ==
    /\ \E uris \in ArgSeqs(MaxArgs) : a = Uri__init__(Uri__new__, uris)
    /\ b = Uri__init__(Uri__new__, <<>>)
    /\ out = Out("Uri", UNSET, UNSET, UNSET, Ok(None), FALSE)

\* a.__init__(*uris) on the object as it is
Uri_reinit(uris) ==
    /\ a' = Uri__init__(a, uris)
    /\ out' = Out("__init__", a.parts, UNSET, UNSET, Ok(None), a.initiated)
    /\ UNCHANGED b

\* a._init(source, path, query, fragment) on the object as it is
Uri_init_again(parts) ==
    /\ a' = [Uri_init(a, parts) EXCEPT !.forced = TRUE]
    /\ out' = Out("_init", a.parts, parts, UNSET, Ok(None), a.initiated)
    /\ UNCHANGED b

\* a.source, a.path, a.query, a.fragment
Uri_read(prop) ==
    /\ a' = accessed(a)
    /\ out' = Out(prop, a.parts, UNSET, a'.parts, Ok(None), a.initiated)
    /\ UNCHANGED b

\* a.as_uri(sanitize=sanitize)
Uri_as_uri(sanitize) ==
    LET res == as_uri(a, sanitize)
    IN  /\ a' = res.self
        /\ out' = Out(IF sanitize THEN "as_uri(sanitize=True)" ELSE "as_uri(sanitize=False)",
                      a.parts, UNSET, UNSET, res.ret, a.initiated)
        /\ UNCHANGED b

\* str(a)
Uri__str__ ==
    LET res == as_uri(a, TRUE)
    IN  /\ a' = res.self
        /\ out' = Out("__str__", a.parts, UNSET, UNSET, res.ret, a.initiated)
        /\ UNCHANGED b

Next ==
    \/ \E x \in REST_ARGS : Uri_reinit(<<x>>)
    \/ \E parts \in INIT_PARTS : Uri_init_again(parts)
    \/ \E prop \in READS : Uri_read(prop)
    \/ \E sanitize \in BOOLEAN : Uri_as_uri(sanitize)
    \/ Uri__str__

Spec == Init /\ [][Next]_vars

\* ------------------------------------------------------------------------
\* Properties of one Uri object (Spec)
\* ------------------------------------------------------------------------

\* sub occurs in s
contains(s, sub) ==
    \E i \in 1..(Len(s) - Len(sub) + 1) : SubSeq(s, i, i + Len(sub) - 1) = sub

\* a was built from the one string Text(w) and has parsed it
ParsedFrom(w) ==
    /\ a.raw = <<StrItem(Text(w))>>
    /\ a.initiated
    /\ ~a.forced

\* C1: for a Uri built from raw inputs, the reads of source, path, query and
\* fragment run _load_parts exactly once, on the first read; a later read
\* returns the stored parts, and every read reports the parts of that parse.
C1_ParsedOnce ==
    /\ a.loads <= 1
    /\ ~a.forced => (a.initiated <=> a.loads = 1)
    /\ ~a.forced /\ a.initiated => a.parts = load_parts(a.raw)
    /\ out.op \in READS => a.initiated /\ out.r = a.parts
    /\ out.op \in READS /\ out.hit => out.r = out.x

\* a read of an object that an earlier read had parsed from two arguments
C1_Witness ==
    /\ out.op \in READS
    /\ out.hit
    /\ ~a.forced
    /\ a.loads = 1
    /\ Len(a.raw) = 2
    /\ out.r = load_parts(a.raw)

\* C2 as written: on an initiated Uri, __init__ with other arguments and
\* _init with other parts raise nothing and leave the parts as they were.
C2_ReinitKeepsParts ==
    out.op \in {"__init__", "_init"} /\ out.hit =>
        out.ret.err = "" /\ a.parts = out.x

\* C2 amended: on an initiated Uri, __init__ with other arguments raises
\* nothing and leaves the parts and the raw arguments as they were; _init
\* raises nothing and replaces the parts by the ones it is given.
C2_ReinitAmended ==
    /\ out.op = "__init__" /\ out.hit => out.ret.err = "" /\ a.parts = out.x
    /\ out.op = "_init" => out.ret.err = "" /\ a.initiated /\ a.parts = out.y

\* _init on an initiated object, with parts that differ from its own
C2_Witness ==
    /\ out.op = "_init"
    /\ out.hit
    /\ out.x # out.y
    /\ a.parts = out.y

\* the port as written, as the int the source holds
WrittenPort(w) == IF w.port = None THEN NoPort ELSE int(w.port)

\* C5: parsing one string gives the source written in it: its scheme (None
\* when absent), userinfo, host ('' when absent) and port (None when
\* absent), also when the string has an authority and no scheme.
C5_SourceAsWritten ==
    \A w \in WRITTEN_SCHEME \cup WRITTEN_NOSCHEME :
        ParsedFrom(w) =>
            a.parts.source = Source(w.scheme, w.userinfo, OrEmpty(w.host), WrittenPort(w))

\* the path as written with %3F, %23 and %2F replaced by '?', '#' and '/'
RECURSIVE unescaped(_)
unescaped(s) ==
    IF s = EMPTY THEN EMPTY
    ELSE IF Len(s) >= 3 /\ SubSeq(s, 1, 3) = <<"%", "3", "F">>
         THEN <<"?">> \o unescaped(SubSeq(s, 4, Len(s)))
    ELSE IF Len(s) >= 3 /\ SubSeq(s, 1, 3) = <<"%", "2", "3">>
         THEN <<"#">> \o unescaped(SubSeq(s, 4, Len(s)))
    ELSE IF Len(s) >= 3 /\ SubSeq(s, 1, 3) = <<"%", "2", "F">>
         THEN <<"/">> \o unescaped(SubSeq(s, 4, Len(s)))
    ELSE <<Head(s)>> \o unescaped(Tail(s))

\* the path has a segment '.' or '..'
has_dot_segment(path) ==
    \E i \in DOMAIN split(path, "/") : split(path, "/")[i] \in {<<".">>, <<".", ".">>}

\* no query and no fragment when none is written
NoneStarted(w) ==
    /\ w.query = None => a.parts.query = EMPTY
    /\ w.fragment = None => a.parts.fragment = EMPTY

\* C6 as written: parsing percent-decodes the path, an encoded '?', '#' or
\* '/' becoming the character without starting a query or a fragment, and an
\* unencoded path is returned unchanged.
C6_PathDecoded ==
    \A w \in WRITTEN :
        ParsedFrom(w) => a.parts.path = unescaped(w.path) /\ NoneStarted(w)

\* C6 amended: parsing percent-decodes the path, an encoded '?', '#' or '/'
\* becoming the character without starting a query or a fragment, and an
\* unencoded path with no '.' or '..' segment is returned unchanged.
C6_PathDecodedAmended ==
    \A w \in WRITTEN :
        ParsedFrom(w) =>
            /\ ~has_dot_segment(w.path) => a.parts.path = unescaped(w.path)
            /\ NoneStarted(w)

\* the parsed path of "http://g.co/%3Fq/%23f/%2Fe"
C6_Witness ==
    /\ \E w \in WRITTEN_ENCODED : ParsedFrom(w) /\ contains(w.path, <<"%", "2", "3">>)
    /\ a.parts.path = <<"/", "?", "q", "/", "#", "f", "/", "/", "e">>
    /\ a.parts.query = EMPTY
    /\ a.parts.fragment = EMPTY

\* the call rendered the sanitized form
Sanitized == out.op \in {"__str__", "as_uri(sanitize=True)"}

\* C7: for a Uri whose userinfo is 'user:pw', str(uri) and
\* as_uri(sanitize=True) never show the password, and show 'user' as the
\* userinfo, whatever as_uri calls were made before: the stored unsanitized
\* rendering is never what a sanitized call returns.
C7_PasswordHidden ==
    Sanitized /\ out.ret.err = "" /\ a.parts.source.userinfo = USERPW =>
        /\ ~contains(out.ret.val, PASSWORD)
        /\ SourceBool(a.parts.source) => getuserinfo(urisplit(out.ret.val)) = USER

\* a sanitized rendering asked of an object that holds the unsanitized one
C7_Witness ==
    /\ Sanitized
    /\ out.ret.err = ""
    /\ a.parts.source.userinfo = USERPW
    /\ a.uri # None
    /\ contains(a.uri, PASSWORD)
    /\ contains(out.ret.val, USER \o <<"@">>)

\* ------------------------------------------------------------------------
\* Joining (SpecJoin): a is built from several arguments, or is a UriPath,
\* and b is what a is divided by
\* ------------------------------------------------------------------------

MaxJoinArgs == 3

\* "http://g.co", "/a/", "b", "ftp://g.co/c", a Uri whose source has a host
\* and no scheme, and a Uri with an empty path
JOIN_ARGS ==
    { StrItem(Text(Written(HTTP, None, HOST, None, EMPTY, None, None))),
      StrItem(<<"/", "a", "/">>),
      StrItem(<<"b">>),
      StrItem(Text(Written(FTP, None, HOST, None, <<"/", "c">>, None, None))),
      UriItem(Parts(Source(None, USER, HOST, NoPort), <<"x">>, None, None)),
      UriItem(Parts(NOSOURCE, EMPTY, <<"q">>, EMPTY)) }

RECURSIVE JoinSeqs(_)
JoinSeqs(n) ==
    IF n = 0 THEN {<<>>}
    ELSE {<<>>} \cup {<<x>> \o xs : x \in JOIN_ARGS, xs \in JoinSeqs(n - 1)}

\* the parts of the UriPath objects
JOIN_PARTS ==
    { Parts(Source(HTTP, USERPW, HOST, 80), <<"/", "a">>, EMPTY, EMPTY),
      Parts(Source(None, USER, HOST, NoPort), <<"/", "a", "/">>, EMPTY, EMPTY),
      Parts(NOSOURCE, <<"a">>, <<"q">>, <<"f">>),
      Parts(NOSOURCE, EMPTY, None, None) }

\* what a is divided by
JOIN_KEYS ==
    { Uri__init__(Uri__new__, <<StrItem(<<"/", "c">>)>>),
      Uri__init__(Uri__new__, <<StrItem(<<"d", "/">>)>>),
      Uri__init__(Uri__new__,
                  <<StrItem(Text(Written(FTP, None, HOST, None, <<"/", "c">>, None, None)))>>),
      Uri_init(Uri__new__, Parts(Source(None, None, HOST, NoPort), <<"e">>, None, None)) }

\* the accessors of the class of self
accessed_cls(self) == IF self.cls = "PureUri" THEN PureUri_accessed(self) ELSE accessed(self)

\* a = Uri(*uris) or PureUri(*uris), or a UriPath that holds its parts
InitJoin ==
    /\ \/ \E cls \in {"Uri", "PureUri"}, uris \in JoinSeqs(MaxJoinArgs) :
             a = Uri__init__(new(cls), uris)
       \/ \E parts \in JOIN_PARTS : a = Uri_init(new("UriPath"), parts)
    /\ b \in JOIN_KEYS
    /\ out = Out("Uri", UNSET, UNSET, UNSET, Ok(None), FALSE)

\* a.source, a.path, a.query, a.fragment
Join_read(prop) ==
    /\ a' = accessed_cls(a)
    /\ out' = Out(prop, a.parts, UNSET, a'.parts, Ok(None), a.initiated)
    /\ UNCHANGED b

\* what an operation of a on b leaves in out: the parts of both, the parts
\* of the Uri returned, and what was returned or raised
OutOf(op, res, hit) ==
    Out(op, res.self.parts, res.other.parts, res.uri.parts, res.ret, hit)

\* a / b
Join_truediv ==
    LET res == UriPath__truediv__(accessed(a), accessed(b))
    IN  /\ a.cls = "UriPath"
        /\ a' = res.self
        /\ b' = res.other
        /\ out' = OutOf("__truediv__", res, a.initiated)

\* a = a.with_source(source): a stays when the call raises
Join_with_source(source) ==
    LET res == UriPath_with_source(accessed(a), source)
    IN  /\ a.cls = "UriPath"
        /\ a' = IF res.ret.err = "" THEN res.uri ELSE res.self
        /\ out' = Out("with_source", res.self.parts, UNSET, res.uri.parts, res.ret,
                      a.initiated)
        /\ UNCHANGED b

NextJoin ==
    \/ \E prop \in READS : Join_read(prop)
    \/ Join_truediv
    \/ \E source \in SOURCES : Join_with_source(source)

SpecJoin == InitJoin /\ [][NextJoin]_vars

\* ------------------------------------------------------------------------
\* Properties of joining (SpecJoin)
\* ------------------------------------------------------------------------

\* the sources and the paths of the arguments a was built from
ArgParts == [i \in DOMAIN a.raw |-> item_parts(a.raw[i])]

\* a was built from its arguments by the loop of _load_parts
Joined == a.initiated /\ a.raw # <<>> /\ (Len(a.raw) > 1 \/ a.raw[1].kind = "str")

\* the source of the rightmost argument whose source has a scheme
RightmostSource ==
    ArgParts[CHOOSE i \in DOMAIN a.raw :
                /\ SourceBool(ArgParts[i].source)
                /\ \A j \in DOMAIN a.raw : j > i => ~SourceBool(ArgParts[j].source)].source

\* C3: (a / b).source is b.source when b.source has a scheme and a.source
\* otherwise; (a / b).path is b.path when b's path is absolute; of several
\* arguments the rightmost with a truthy source gives the source.
C3_JoinSource ==
    /\ out.op = "__truediv__" =>
          /\ out.ret.err = ""
          /\ out.r.source = IF SourceBool(out.y.source) THEN out.y.source ELSE out.x.source
          /\ startswith(out.y.path, <<"/">>) => out.r.path = out.y.path
    /\ Joined /\ (\E i \in DOMAIN a.raw : SourceBool(ArgParts[i].source)) =>
          a.parts.source = RightmostSource

\* p appended to the path acc with one '/' between them
glue(acc, p) ==
    IF p = EMPTY THEN acc
    ELSE IF acc = EMPTY THEN p
    ELSE IF endswith(acc, <<"/">>) THEN acc \o p
    ELSE acc \o <<"/">> \o p

RECURSIVE glued(_, _, _)
glued(paths, i, acc) ==
    IF i > Len(paths) THEN acc ELSE glued(paths, i + 1, glue(acc, paths[i]))

\* the index of the rightmost path that starts with '/', 1 when there is none
RightmostAbsolute(paths) ==
    IF \E i \in DOMAIN paths : startswith(paths[i], <<"/">>)
    THEN CHOOSE i \in DOMAIN paths :
            /\ startswith(paths[i], <<"/">>)
            /\ \A j \in DOMAIN paths : j > i => ~startswith(paths[j], <<"/">>)
    ELSE 1

\* C4: the joined path is built from the paths pk..pn, pk being the
\* rightmost that starts with '/': one '/' between two paths, none after a
\* path that ends with '/', nothing for an empty path, the last path's
\* trailing '/' kept.
C4_JoinPath ==
    Joined =>
        a.parts.path = glued(paths_of(ArgParts), RightmostAbsolute(paths_of(ArgParts)), EMPTY)

\* C30: a Uri built from two or more non-empty arguments has the query and
\* the fragment of the last one, also when the last one has none and an
\* earlier one has; built from one Uri it has the four parts of that Uri
C30_LastQueryFragment ==
    /\ (a.initiated /\ Len(a.raw) >= 2) =>
          /\ a.parts.query = ArgParts[Len(a.raw)].query
          /\ a.parts.fragment = ArgParts[Len(a.raw)].fragment
    /\ (a.initiated /\ Len(a.raw) = 1 /\ a.raw[1].kind = "uri") =>
          a.parts = a.raw[1].parts

\* a child name joined onto a Uri that has a query: the query is empty
C30_Witness ==
    /\ a.initiated /\ Len(a.raw) = 2
    /\ a.raw[1].kind = "uri" /\ a.raw[1].parts.query = <<"q">>
    /\ a.raw[2] = StrItem(<<"b">>)
    /\ a.parts.query = EMPTY /\ a.parts.path = <<"b">>

\* ------------------------------------------------------------------------
\* Two values (SpecRel): the Uri a, derived step by step with the with_*
\* operations, and the UriPath b it is compared with and made relative to
\* ------------------------------------------------------------------------

AB == <<"/", "a", "/", "b">>

\* the arguments a is built from
REL_ARGS ==
    { <<>>,
      <<StrItem(Text(Written(HTTP, None, HOST, None, AB, None, None)))>>,
      <<StrItem(Text(Written(HTTP, None, HOST, None, AB \o <<"/">>, None, None)))>>,
      <<StrItem(Text(Written(HTTP, None, HOST, None, EMPTY, None, None))), StrItem(AB)>>,
      <<StrItem(Text(Written(HTTP, None, HOST, None, EMPTY, None, None))), StrItem(<<"b">>)>>,
      <<StrItem(Text(Written(FTP, None, HOST, None, AB, None, None)))>>,
      <<StrItem(AB \o <<"/">>)>>,
      <<StrItem(<<"/", "a">>), StrItem(<<"b">>)>>,
      <<StrItem(Text(Written(None, None, None, None, <<"a", "/", "b">>, <<"q">>, <<"f">>)))>> }

\* the parts of b
REL_PARTS ==
    { Parts(Source(HTTP, None, EMPTY \o HOST, NoPort), <<"/", "a">>, EMPTY, EMPTY),
      Parts(Source(HTTP, None, EMPTY \o HOST, NoPort), AB, EMPTY, EMPTY),
      Parts(NOSOURCE, <<"/", "a">>, EMPTY, EMPTY),
      Parts(NOSOURCE, AB, EMPTY, EMPTY),
      Parts(NOSOURCE, <<"a">>, None, None),
      Parts(NOSOURCE, <<"/", "z">>, None, None),
      Parts(NOSOURCE, EMPTY, None, None) }

InitRel ==
    /\ \E uris \in REL_ARGS : a = Uri__init__(Uri__new__, uris)
    /\ \E parts \in REL_PARTS : b = Uri_init(new("UriPath"), parts)
    /\ out = Out("Uri", UNSET, UNSET, UNSET, Ok(None), FALSE)

\* a.relative_to(b)
Rel_relative_to ==
    LET res == relative_to(accessed(a), accessed(b))
    IN  /\ a' = res.self
        /\ b' = res.other
        /\ out' = OutOf("relative_to", res, a.initiated)

\* a == b
Rel_eq ==
    LET res == Uri__eq__(a, b)
    IN  /\ a' = res.self
        /\ b' = res.other
        /\ out' = OutOf("__eq__", res, a.initiated)

\* base / rel == me, div being what base / rel gave
rejoined_eq(me, base, div) ==
    IF div.ret.err # "" THEN Result(me, base, div.ret.err, None, div.uri)
    ELSE Result(Uri__eq__(div.uri, me).other, base,
                Uri__eq__(div.uri, me).ret.err, Uri__eq__(div.uri, me).ret.val, div.uri)

\* base / me.relative_to(base) == me, rel being what relative_to gave
roundtrip_of(me, base, rel) ==
    IF rel.ret.err # "" THEN Result(me, base, rel.ret.err, None, rel.uri)
    ELSE rejoined_eq(me, base, UriPath__truediv__(base, rel.uri))

\* b / a.relative_to(b) == a
Rel_roundtrip ==
    LET res == roundtrip_of(accessed(a), accessed(b),
                            relative_to(accessed(a), accessed(b)))
    IN  /\ a' = res.self
        /\ b' = res.other
        /\ out' = Out("roundtrip", a'.parts, b'.parts, res.uri.parts, res.ret, a.initiated)

\* what a = a.with_...(...) leaves in out: the parts of the Uri returned
Derived(op, uri, hit) == Out(op, UNSET, UNSET, uri.parts, Ok(None), hit)

\* a = a.with_source(source)
Rel_with_source(source) ==
    /\ a' = with_source(accessed(a), source)
    /\ out' = Derived("with_source", a', a.initiated)
    /\ UNCHANGED b

\* a = a.with_path(path)
Rel_with_path(path) ==
    /\ a' = with_path(accessed(a), path)
    /\ out' = Derived("with_path", a', a.initiated)
    /\ UNCHANGED b

\* a = a.with_query(query)
Rel_with_query(query) ==
    /\ a' = with_query(accessed(a), query)
    /\ out' = Derived("with_query", a', a.initiated)
    /\ UNCHANGED b

\* a = a.with_fragment(fragment)
Rel_with_fragment(fragment) ==
    /\ a' = with_fragment(accessed(a), fragment)
    /\ out' = Derived("with_fragment", a', a.initiated)
    /\ UNCHANGED b

\* a = a.with_name(name), for a path that has a name
Rel_with_name(name) ==
    LET res == with_name(accessed(a), name)
    IN  /\ res.ret.err = ""
        /\ a' = res.uri
        /\ out' = Derived("with_name", a', a.initiated)
        /\ UNCHANGED b

NextRel ==
    \/ Rel_relative_to
    \/ Rel_eq
    \/ Rel_roundtrip
    \/ \E source \in SOURCES : Rel_with_source(source)
    \/ \E path \in {AB, <<"/", "a", "/">>} : Rel_with_path(path)
    \/ \E query \in {<<"q">>} : Rel_with_query(query)
    \/ \E fragment \in {<<"f">>} : Rel_with_fragment(fragment)
    \/ \E name \in {<<"c">>} : Rel_with_name(name)

SpecRel == InitRel /\ [][NextRel]_vars

\* ------------------------------------------------------------------------
\* Properties of two values (SpecRel)
\* ------------------------------------------------------------------------

\* the seven components, an absent one (None) read as the empty one
Components(parts) ==
    <<OrEmpty(parts.source.scheme), OrEmpty(parts.source.userinfo),
      OrEmpty(parts.source.host), parts.source.port,
      OrEmpty(parts.path), OrEmpty(parts.query), OrEmpty(parts.fragment)>>

\* C8: a == b is True exactly when a and b have the same scheme, userinfo,
\* host, port, path, query and fragment, however each was built.
C8_EqualIffSameComponents ==
    out.op = "__eq__" =>
        /\ out.ret.err = ""
        /\ out.ret.val = Bool(Components(out.x) = Components(out.y))

\* q with a '/' at its end
Dir(q) == IF endswith(q, <<"/">>) THEN q ELSE q \o <<"/">>

\* what is left of the path p under the path q, when p is q or lies under it
Under(p, q) ==
    IF q = EMPTY THEN (IF startswith(p, <<"/">>) THEN Raise("ValueError") ELSE Ok(p))
    ELSE IF p = q \/ p = Dir(q) THEN Ok(EMPTY)
    ELSE IF startswith(p, Dir(q)) THEN Ok(SubSeq(p, Len(Dir(q)) + 1, Len(p)))
    ELSE Raise("ValueError")

\* C9: for a and base with the same source, a below base,
\* base / a.relative_to(base) == a.
C9_RelativeRoundTrip ==
    /\ out.op = "roundtrip"
    /\ out.x.source = out.y.source
    /\ Under(out.x.path, out.y.path).err = ""
    /\ Under(out.x.path, out.y.path).val # EMPTY
    => out.ret = Ok(Bool(TRUE))

\* both sources have a scheme and they differ
SourcesDiffer(x, y) == SourceBool(x.source) /\ SourceBool(y.source) /\ x.source # y.source

\* rel is the text rest, with or without its trailing '/', '.' standing for
\* nothing left
IsRest(rel, rest) ==
    \/ rel = rest
    \/ rel \o <<"/">> = rest
    \/ rest = EMPTY /\ rel = <<".">>

\* C10: a.relative_to(other) raises ValueError exactly when both sources
\* have a scheme and differ; otherwise it returns a Uri without a source,
\* with a's query and fragment, whose path is a's path relative to other's,
\* or a's own path when a's path is not under other's.
C10_RelativeTo ==
    out.op = "relative_to" =>
        IF SourcesDiffer(out.x, out.y) THEN out.ret.err = "ValueError"
        ELSE /\ out.ret.err = ""
             /\ out.r.source = NOSOURCE
             /\ out.r.query = out.x.query
             /\ out.r.fragment = out.x.fragment
             /\ IF Under(out.x.path, out.y.path).err = ""
                THEN IsRest(out.r.path, Under(out.x.path, out.y.path).val)
                ELSE out.r.path = out.x.path

\* ------------------------------------------------------------------------
\* Ancestors (SpecNav): the Uri a, its parent and the sequence a.parents;
\* b is the element a.parents[idx] last gave
\* ------------------------------------------------------------------------

\* Uri.segments
segments(path) == IF ~Truthy(path) THEN <<>> ELSE split(path, <<"/">>)

\* the loop of _UriPathParents.__init__: trailing empty segments are dropped
RECURSIVE parents_segments(_)
parents_segments(segs) ==
    IF segs # <<>> /\ segs[Len(segs)] = EMPTY
    THEN parents_segments(SubSeq(segs, 1, Len(segs) - 1))
    ELSE segs

\* _UriPathParents(path): its slots
UriPathParents(path) ==
    [path |-> path, segments |-> parents_segments(segments(path.parts.path))]

\* _UriPathParents.__len__
parents__len__(ps) == Len(ps.segments)

\* the slice self._segments[: -idx] in place of self._segments[: -idx - 1]
parents_slice_short(segs, idx) == SubSeq(segs, 1, IF idx = 0 THEN 0 ELSE Len(segs) - idx)

\* self._segments[: -idx - 1] for 0 <= idx < len(self)
parents_slice(segs, idx) == SubSeq(segs, 1, Len(segs) - idx - 1)

\* _UriPathParents.__getitem__(idx) for an int idx
parents__getitem__(ps, idx) ==
    IF idx >= parents__len__(ps) \/ idx < -parents__len__(ps)
    THEN [err |-> "IndexError", val |-> ps.path]
    ELSE [err |-> "",
          val |-> with_path(ps.path,
                            join(parents_slice(ps.segments,
                                               IF idx < 0 THEN idx + parents__len__(ps)
                                               ELSE idx), <<"/">>))]

\* the body of Uri.parent, segs being self.segments
parent_of(me, segs) ==
    IF segs = <<>> \/ (Len(segs) = 2 /\ segs[2] = EMPTY) THEN me
    ELSE with_path(me, join(SubSeq(segs, 1, Len(segs) - 1), <<"/">>))

\* Uri.parent
parent(me) == parent_of(me, segments(me.parts.path))

\* the deepest path has MaxDepth names
MaxDepth == 3

NAV_NAMES == <<"a", "b", "c", "d">>

\* /a/b/... with depth names
RECURSIVE NavPath(_)
NavPath(depth) ==
    IF depth = 0 THEN EMPTY ELSE NavPath(depth - 1) \o <<"/", NAV_NAMES[depth]>>

\* the paths a is written with: rooted, with a trailing slash, relative, with
\* an empty segment inside
NAV_PATHS ==
    {NavPath(d) : d \in 0..MaxDepth}
    \cup {NavPath(d) \o <<"/">> : d \in 0..MaxDepth}
    \cup {Tail(NavPath(d)) : d \in 1..MaxDepth}
    \cup {<<"a", "/", "/", "b", "/", "/">>, <<"/", "/">>}

NAV_ARGS ==
    {<<StrItem(p)>> : p \in NAV_PATHS}
    \cup {<<StrItem(Text(Written(HTTP, USERPW, HOST, None, p, <<"q">>, <<"f">>)))>> :
            p \in {q \in NAV_PATHS : q = EMPTY \/ Head(q) = "/"}}
    \cup {<<>>}

NAV_PARTS ==
    {Parts(Source(FTP, None, HOST, NoPort), p, <<"q">>, None) : p \in NAV_PATHS}

\* what a parents operation leaves in out: x the receiver's parts, idx the
\* index asked, len what len() gave, r the parts of the element, err the
\* exception
NavOut(op, x, idx, n, r, err) ==
    [op |-> op, x |-> x, idx |-> idx, len |-> n, r |-> r, err |-> err]

InitNav ==
    /\ \/ \E uris \in NAV_ARGS : a = Uri__init__(Uri__new__, uris)
       \/ \E parts \in NAV_PARTS : a = Uri_init(new("UriPath"), parts)
    /\ b = Uri__init__(Uri__new__, <<>>)
    /\ out = NavOut("Uri", UNSET, 0, 0, UNSET, "")

\* len(a.parents)
Nav_len ==
    /\ a' = accessed(a)
    /\ out' = NavOut("__len__", a'.parts, 0, parents__len__(UriPathParents(a')), UNSET, "")
    /\ UNCHANGED b

\* b = a.parents[idx]
Nav_getitem(idx) ==
    /\ a' = accessed(a)
    /\ b' = parents__getitem__(UriPathParents(a'), idx).val
    /\ out' = NavOut("__getitem__", a'.parts, idx, parents__len__(UriPathParents(a')),
                     b'.parts, parents__getitem__(UriPathParents(a'), idx).err)

\* a = a.parent
Nav_parent ==
    /\ a' = parent(accessed(a))
    /\ out' = NavOut("parent", accessed(a).parts, 0, 0, a'.parts, "")
    /\ UNCHANGED b

NextNav ==
    \/ Nav_len
    \/ \E idx \in -(MaxDepth + 2)..(MaxDepth + 2) : Nav_getitem(idx)
    \/ Nav_parent

SpecNav == InitNav /\ [][NextNav]_vars

\* the segments of a path that are left when the empty ones at its end are
\* not counted
Counted(segs) ==
    SubSeq(segs, 1, IF \E i \in DOMAIN segs : segs[i] # EMPTY
                    THEN CHOOSE i \in DOMAIN segs :
                            segs[i] # EMPTY /\ \A j \in (i + 1)..Len(segs) : segs[j] = EMPTY
                    ELSE 0)

\* C11: for a path with N segments once the empty ones at its end are
\* dropped, len(parents) is N, parents[i] for 0 <= i < N is the receiver with
\* its last i+1 segments removed and its source, query and fragment kept,
\* and the last element is its own parent
C11_Parents ==
    /\ out.op = "__len__" => out.len = Len(Counted(segments(out.x.path)))
    /\ (out.op = "__getitem__" /\ out.idx \in 0..(Len(Counted(segments(out.x.path))) - 1)) =>
        /\ out.err = ""
        /\ out.r = Parts(out.x.source,
                         join(SubSeq(Counted(segments(out.x.path)), 1,
                                     Len(Counted(segments(out.x.path))) - out.idx - 1), <<"/">>),
                         out.x.query, out.x.fragment)
        /\ out.idx = Len(Counted(segments(out.x.path))) - 1 =>
              parent(accessed(b)).parts = accessed(b).parts

\* the last of three ancestors of a path written with a source, a query and
\* a slash at its end
C11_Witness ==
    /\ out.op = "__getitem__"
    /\ out.idx = 2
    /\ out.len = 3
    /\ out.err = ""
    /\ SourceBool(out.x.source)
    /\ Truthy(out.x.query)
    /\ endswith(out.x.path, <<"/">>)

\* ------------------------------------------------------------------------
\* Scheme dispatch (SpecScheme): the UriPath a, and b, what UriPath(*args)
\* or a / key last gave
\* ------------------------------------------------------------------------

FILE == <<"f", "i", "l", "e">>

\* the schemesmap argument: None when it is not given, else a dict, kept as
\* its set of (scheme, class) items
NoMap == [given |-> FALSE, items |-> {}]
Map(items) == [given |-> TRUE, items |-> items]

\* schemesmap.get(scheme, None)
map_get(schemesmap, scheme) ==
    IF \E it \in schemesmap.items : it[1] = scheme
    THEN (CHOOSE it \in schemesmap.items : it[1] = scheme)[2]
    ELSE "None"

\* _cls = schemesmap.get(self.scheme, None); return _cls if _cls else Uri
scheme_cls_of(schemesmap, scheme) ==
    Ok(IF map_get(schemesmap, scheme) # "None" THEN map_get(schemesmap, scheme) ELSE "Uri")

\* Source.get_scheme_cls(schemesmap): the class, or the AttributeError of
\* Uri._schemesmap(), a method that UriPath defines and Uri does not
Source_get_scheme_cls(source, schemesmap) ==
    IF Truthy(source.scheme)
    THEN IF ~schemesmap.given THEN Raise("AttributeError")
         ELSE scheme_cls_of(schemesmap, source.scheme)
    ELSE Ok("Uri")

\* isinstance(inst, UriPath): FileUri derives from Uri, a scheme class with a
\* backend (SftpPath) from UriPath
IsUriPath(cls) == cls \in {"UriPath", "SftpPath"}

\* UriPath.__new__ past the lookup, found being what get_scheme_cls gave:
\* found.__new__ and then _init with the parts of uri
UriPath_new_found(uri, found) ==
    IF found.err # "" THEN [err |-> found.err, val |-> Uri__new__]
    ELSE [err |-> "", val |-> Uri_init(new(found.val), uri.parts)]

\* UriPath.__new__(cls, *args, schemesmap=schemesmap, findclass=findclass)
\* and the __init__ that follows when an instance of cls comes back
UriPath_new(cls, args, schemesmap, findclass) ==
    IF cls = "UriPath" \/ findclass
    THEN UriPath_new_found(loaded(Uri__init__(Uri__new__, args)),
             Source_get_scheme_cls(loaded(Uri__init__(Uri__new__, args)).parts.source,
                                   schemesmap))
    ELSE Ok(Uri__init__(new(cls), args))

\* the dicts handed as schemesmap
SCHEMESMAPS ==
    { NoMap, Map({}), Map({<<FILE, "FileUri">>}),
      Map({<<FILE, "FileUri">>, <<FTP, "UriPath">>}) }

\* what a is built from and divided by
SCHEME_ARGS ==
    { <<>>,
      <<StrItem(<<"/", "a">>)>>,
      <<StrItem(<<"/", "a">>), StrItem(<<"b">>)>>,
      <<StrItem(Text(Written(FILE, None, None, None, <<"/", "a">>, None, None)))>>,
      <<StrItem(Text(Written(FILE, None, None, None, <<"/", "a">>, None, None))),
        StrItem(<<"b">>)>>,
      <<StrItem(Text(Written(FTP, None, HOST, None, <<"/", "a">>, None, None)))>>,
      <<StrItem(Text(Written(HTTP, USERPW, HOST, None, <<"/", "a">>, <<"q">>, None)))>>,
      <<StrItem(Text(Written(None, USER, HOST, None, <<"/", "a">>, None, None)))>> }

SCHEME_KEYS ==
    { Uri__init__(Uri__new__, <<StrItem(<<"b">>)>>),
      Uri__init__(Uri__new__, <<StrItem(<<"/", "c">>)>>),
      Uri__init__(Uri__new__,
                  <<StrItem(Text(Written(HTTP, None, HOST, None, <<"/", "d">>, None, None)))>>) }

\* op: the operation; source: the source looked up; map: the schemesmap
\* given; cls: the class returned, or the class of the instance returned;
\* err: the exception
SchemeOut(op, source, schemesmap, cls, err) ==
    [op |-> op, source |-> source, map |-> schemesmap, cls |-> cls, err |-> err]

\* a is a UriPath as UriPath(*args, schemesmap={"ftp": UriPath}) and
\* UriPath.with_source(Source(None, ...)) leave it
InitScheme ==
    /\ \E parts \in { Parts(Source(FTP, None, HOST, NoPort), <<"/", "a">>, EMPTY, EMPTY),
                      Parts(Source(None, USER, HOST, NoPort), <<"/", "a">>, EMPTY, EMPTY),
                      Parts(NOSOURCE, <<"/", "a", "/">>, EMPTY, EMPTY),
                      Parts(NOSOURCE, EMPTY, None, None) } :
          a = Uri_init(new("UriPath"), parts)
    /\ b = Uri__init__(Uri__new__, <<>>)
    /\ out = SchemeOut("Uri", NOSOURCE, NoMap, "Uri", "")

\* source.get_scheme_cls(schemesmap)
Scheme_get_scheme_cls(source, schemesmap) ==
    /\ out' = SchemeOut("get_scheme_cls", source, schemesmap,
                        Source_get_scheme_cls(source, schemesmap).val,
                        Source_get_scheme_cls(source, schemesmap).err)
    /\ UNCHANGED <<a, b>>

\* b = UriPath(*args, schemesmap=schemesmap)
Scheme_new(args, schemesmap) ==
    /\ b' = UriPath_new("UriPath", args, schemesmap, FALSE).val
    /\ out' = SchemeOut("UriPath", loaded(Uri__init__(Uri__new__, args)).parts.source,
                        schemesmap, b'.cls, UriPath_new("UriPath", args, schemesmap, FALSE).err)
    /\ UNCHANGED a

\* b = a / key, which is type(a)(a, key, findclass=True)
Scheme_truediv(key) ==
    /\ IsUriPath(a.cls)
    /\ b' = UriPath_new(a.cls, <<UriItem(a.parts), UriItem(accessed(key).parts)>>,
                        NoMap, TRUE).val
    /\ out' = SchemeOut("__truediv__",
                        load_parts(<<UriItem(a.parts), UriItem(accessed(key).parts)>>).source,
                        NoMap, b'.cls,
                        UriPath_new(a.cls, <<UriItem(a.parts), UriItem(accessed(key).parts)>>,
                                    NoMap, TRUE).err)
    /\ UNCHANGED a

NextScheme ==
    \/ \E source \in SOURCES \cup {Source(FILE, None, EMPTY, NoPort)},
          schemesmap \in SCHEMESMAPS : Scheme_get_scheme_cls(source, schemesmap)
    \/ \E args \in SCHEME_ARGS, schemesmap \in SCHEMESMAPS : Scheme_new(args, schemesmap)
    \/ \E key \in SCHEME_KEYS : Scheme_truediv(key)

SpecScheme == InitScheme /\ [][NextScheme]_vars

\* the classes registered when no schemesmap is given: UriPath._schemesmap()
\* is {scheme: cls} over UriPath and its subclasses, and UriPath has no
\* scheme and no subclass
Registered(schemesmap) == IF schemesmap.given THEN schemesmap.items ELSE {}

\* the class the rule names for a source: the registered one, else the base
\* class Uri that get_scheme_cls falls back to
RuleClass(source, schemesmap) ==
    IF Truthy(source.scheme) /\ \E it \in Registered(schemesmap) : it[1] = source.scheme
    THEN (CHOOSE it \in Registered(schemesmap) : it[1] = source.scheme)[2]
    ELSE "Uri"

\* C12: get_scheme_cls returns the class registered for a non-empty
\* registered scheme and the base class for an empty or unregistered one;
\* UriPath(*args) and a / key give an instance of exactly that class; none
\* of the three raises
C12_SchemeClass ==
    out.op \in {"get_scheme_cls", "UriPath", "__truediv__"} =>
        /\ out.err = ""
        /\ out.cls = RuleClass(out.source, out.map)

\* ------------------------------------------------------------------------
\* I/O on the class without a backend (SpecIO): the UriPath a and the last
\* operation called on it, each one a method that @notimplemented wraps
\* ------------------------------------------------------------------------

\* the function notimplemented(method) returns, called with the receiver and
\* nargs more arguments: it has one parameter, which takes the receiver, and
\* its message reads the receiver's __name__; named: the receiver has one
notimplemented(named, nargs) ==
    IF nargs > 0 THEN Raise("TypeError")
    ELSE IF ~named THEN Raise("AttributeError")
    ELSE Raise("NotImplementedError")

\* an argument that is left out of a call
ABSENT == "absent"

\* how many of the arguments are passed
Passed(args) == Cardinality({i \in DOMAIN args : args[i] # ABSENT})

\* a path object has no attribute __name__
HasName(self) == FALSE

\* PathProtocol.stat(*, follow_symlinks=True)
stat(self, follow_symlinks) == notimplemented(HasName(self), Passed(<<follow_symlinks>>))

\* PathProtocol._open(mode, buffering)
open_(self, mode, buffering) == notimplemented(HasName(self), Passed(<<mode, buffering>>))

\* PathProtocol.open: fh = self._open(mode.replace("b", ""), buffering)
open(self, mode, buffering) ==
    open_(self, IF mode = ABSENT THEN "r" ELSE mode,
                IF buffering = ABSENT THEN "-1" ELSE buffering)

\* UriPath._listdir()
listdir(self) == notimplemented(HasName(self), 0)

\* UriPath.iterdir(): the generator's first step calls _listdir
iterdir(self) == listdir(self)

\* PathProtocol._mkdir(mode)
mkdir_(self, mode) == notimplemented(HasName(self), Passed(<<mode>>))

\* the try of PathProtocol.mkdir, made being what _mkdir gave: a
\* FileNotFoundError comes back from the ancestors or from the second mkdir,
\* an OSError is kept unless exist_ok and is_dir(), which calls stat
mkdir_of(self, made, exist_ok) ==
    IF made.err = "FileNotFoundError" THEN made
    ELSE IF made.err = "OSError"
    THEN IF ~exist_ok THEN made ELSE stat(self, ABSENT)
    ELSE made

\* PathProtocol.mkdir(mode=0o777, parents=False, exist_ok=False)
mkdir(self, mode, parents, exist_ok) ==
    mkdir_of(self, mkdir_(self, IF mode = ABSENT THEN "0o777" ELSE mode), exist_ok)

\* PathProtocol.chmod(mode, *, follow_symlinks=True)
chmod(self, mode, follow_symlinks) ==
    notimplemented(HasName(self), Passed(<<mode, follow_symlinks>>))

\* PathProtocol.unlink(missing_ok=False)
unlink(self, missing_ok) == notimplemented(HasName(self), Passed(<<missing_ok>>))

\* PathProtocol.rmdir()
rmdir(self) == notimplemented(HasName(self), 0)

\* PathProtocol.rename(target)
rename(self, target) == notimplemented(HasName(self), Passed(<<target>>))

IO_PARTS ==
    { Parts(Source(None, USER, HOST, NoPort), <<"/", "a">>, EMPTY, EMPTY),
      Parts(Source(FTP, None, HOST, NoPort), <<"/", "a">>, EMPTY, EMPTY),
      Parts(NOSOURCE, <<"/", "a", "/">>, EMPTY, EMPTY),
      Parts(NOSOURCE, <<"/">>, EMPTY, EMPTY),
      Parts(NOSOURCE, EMPTY, None, None) }

\* op: the operation; args: the arguments it was called with; err: the
\* exception it raised
IOOut(op, args, ret) == [op |-> op, args |-> args, err |-> ret.err]

InitIO ==
    /\ \E parts \in IO_PARTS : a = Uri_init(new("UriPath"), parts)
    /\ b = Uri__init__(Uri__new__, <<>>)
    /\ out = [op |-> "Uri", args |-> <<>>, err |-> ""]

\* next(a.iterdir())
IO_iterdir ==
    /\ out' = IOOut("iterdir", <<>>, iterdir(a))
    /\ UNCHANGED <<a, b>>

\* a.stat(follow_symlinks=...)
IO_stat(follow_symlinks) ==
    /\ out' = IOOut("stat", <<follow_symlinks>>, stat(a, follow_symlinks))
    /\ UNCHANGED <<a, b>>

\* a.open(mode, buffering)
IO_open(mode, buffering) ==
    /\ out' = IOOut("open", <<mode, buffering>>, open(a, mode, buffering))
    /\ UNCHANGED <<a, b>>

\* a.mkdir(mode, parents, exist_ok)
IO_mkdir(mode, parents, exist_ok) ==
    /\ out' = IOOut("mkdir", <<mode, Bool(parents)[1], Bool(exist_ok)[1]>>,
                    mkdir(a, mode, parents, exist_ok))
    /\ UNCHANGED <<a, b>>

\* a.chmod(mode, follow_symlinks=...)
IO_chmod(mode, follow_symlinks) ==
    /\ out' = IOOut("chmod", <<mode, follow_symlinks>>, chmod(a, mode, follow_symlinks))
    /\ UNCHANGED <<a, b>>

\* a.unlink(missing_ok)
IO_unlink(missing_ok) ==
    /\ out' = IOOut("unlink", <<missing_ok>>, unlink(a, missing_ok))
    /\ UNCHANGED <<a, b>>

\* a.rmdir()
IO_rmdir ==
    /\ out' = IOOut("rmdir", <<>>, rmdir(a))
    /\ UNCHANGED <<a, b>>

\* a.rename(target)
IO_rename(target) ==
    /\ out' = IOOut("rename", <<target>>, rename(a, target))
    /\ UNCHANGED <<a, b>>

NextIO ==
    \/ IO_iterdir
    \/ \E follow_symlinks \in {ABSENT, "True", "False"} : IO_stat(follow_symlinks)
    \/ \E mode \in {ABSENT, "r", "rb", "w"}, buffering \in {ABSENT, "-1", "0"} :
          IO_open(mode, buffering)
    \/ \E mode \in {ABSENT, "0o700"}, parents \in BOOLEAN, exist_ok \in BOOLEAN :
          IO_mkdir(mode, parents, exist_ok)
    \/ \E mode \in {"0o700", "0o644"}, follow_symlinks \in {ABSENT, "False"} :
          IO_chmod(mode, follow_symlinks)
    \/ \E missing_ok \in {ABSENT, "True", "False"} : IO_unlink(missing_ok)
    \/ IO_rmdir
    \/ \E target \in {"/b", "b"} : IO_rename(target)

SpecIO == InitIO /\ [][NextIO]_vars

IO_OPS == {"iterdir", "stat", "open", "mkdir", "chmod", "unlink", "rmdir", "rename"}

\* C13: every I/O operation on the class without a backend raises
\* NotImplementedError, whatever its arguments, and no other exception
C13_NotImplemented ==
    out.op \in IO_OPS => out.err = "NotImplementedError"

\* ------------------------------------------------------------------------
\* Backends (SpecBackend): a is a path of a scheme class that has a backend
\* factory (SftpPath, scheme sftp), b the path it is joined with, and out
\* the path last derived from them with the count of _initbackend calls
\* ------------------------------------------------------------------------

SFTP == <<"s", "f", "t", "p">>

\* cls._schemes(): the __SCHEMES of the class, () for UriPath
schemes(cls) == IF cls = "SftpPath" THEN {SFTP} ELSE {}

\* the n-th backend object a factory makes
Backend(n) == <<"SftpBackend">> \o str(n)

\* self._initbackend(), n being the count of the objects made so far
initbackend(cls, n) == IF cls = "SftpPath" THEN Backend(n + 1) ELSE None

\* UriPath._init(source, path, query, fragment, backend=backend)
UriPath_init(self, parts, backend) ==
    Uri_init(IF backend # None THEN [self EXCEPT !.backend = backend] ELSE self, parts)

\* inst._init(..., backend=backend) on whatever __new__ gave: Uri._init
\* takes the keyword and drops it
init_of(inst, parts, backend) ==
    IF IsUriPath(inst.cls) THEN UriPath_init(inst, parts, backend) ELSE Uri_init(inst, parts)

\* cls.__new__(cls) and cls.__new__(cls, backend=...): Uri.__new__ for a
\* scheme class, whatever the keywords, and the dispatch of UriPath.__new__
\* for UriPath
cls_new(cls) == IF cls = "UriPath" THEN UriPath__new__(<<>>).val ELSE new(cls)

\* the property backend: the object after the read, and the count of the
\* objects made
backend(self, made) ==
    IF self.backend = None
    THEN [self |-> [self EXCEPT !.backend = initbackend(self.cls, made)], made |-> made + 1]
    ELSE [self |-> self, made |-> made]

\* UriPath.with_backend
with_backend(me, given) == init_of(cls_new(me.cls), me.parts, given)

\* a UriPath among _raw_uris: it is held with its class and its _backend
PathItem(obj) ==
    [kind |-> "uri", s |-> EMPTY, parts |-> obj.parts, cls |-> obj.cls,
     backend |-> obj.backend]

\* the loop of UriPath._load_parts over reversed(self._raw_uris), from raw[i]
\* down: the _backend of the first UriPath of the same scheme that has one
RECURSIVE raw_backend(_, _, _, _)
raw_backend(raw, i, scheme, kept) ==
    IF i = 0 THEN kept
    ELSE IF /\ raw[i].kind = "uri"
            /\ "cls" \in DOMAIN raw[i]
            /\ IsUriPath(raw[i].cls)
            /\ raw[i].parts.source.scheme = scheme
            /\ raw[i].backend # None
    THEN raw[i].backend
    ELSE raw_backend(raw, i - 1, scheme, kept)

\* UriPath._load_parts past super()._load_parts(), which gave me
UriPath_load_parts(me) ==
    IF SourceBool(me.parts.source) /\ Truthy(me.parts.source.scheme)
    THEN [me EXCEPT !.backend = raw_backend(me.raw, Len(me.raw),
                                            me.parts.source.scheme, me.backend)]
    ELSE me

\* an accessor of a UriPath
UriPath_accessed(self) ==
    IF ~self.initiated THEN UriPath_load_parts(loaded(self)) ELSE self

\* UriPath.with_source on a path of any class of the family
UriPath_with_source_cls(me, source) ==
    IF ~SourceBool(source) \/ source.scheme \notin schemes(me.cls)
    THEN UriPath_with_source(me, source)
    ELSE Result(me, me, "", None,
                init_of(cls_new(me.cls),
                        Parts(source, me.parts.path, me.parts.query, me.parts.fragment),
                        None))

\* at most MaxBackends backend objects are made
MaxBackends == 3

SFTP_SOURCE == Source(SFTP, USER, EMPTY \o HOST, NoPort)

\* op: the operation; r: the path derived; err: the exception; made: the
\* count of the backend objects made; live: the backend the operands held,
\* the rightmost one; again: reading r.backend made a backend
BackendOut(op, r, err, made, live, again) ==
    [op |-> op, r |-> r, err |-> err, made |-> made, live |-> live, again |-> again]

\* the backend the operands of a / b hold for the scheme of a
Live(x, y) ==
    IF IsUriPath(y.cls) /\ y.parts.source.scheme = x.parts.source.scheme /\ y.backend # None
    THEN y.backend
    ELSE x.backend

InitBackend ==
    /\ \E path \in {<<"/", "a">>, <<"/", "a", "/", "b">>} :
          a = UriPath_init(new("SftpPath"), Parts(SFTP_SOURCE, path, EMPTY, EMPTY), None)
    /\ \/ b = accessed(Uri__init__(Uri__new__, <<StrItem(<<"c">>)>>))
       \/ b = UriPath_init(new("SftpPath"), Parts(SFTP_SOURCE, <<"d">>, EMPTY, EMPTY), None)
       \/ b = UriPath_init(new("UriPath"), Parts(NOSOURCE, <<"e", "/">>, EMPTY, EMPTY), None)
    /\ out = BackendOut("Uri", Uri__new__, "", 0, None, FALSE)

\* a.backend
Backend_backend ==
    /\ out.made < MaxBackends
    /\ a' = backend(a, out.made).self
    /\ out' = BackendOut("backend", Uri__new__, "", backend(a, out.made).made, None, FALSE)
    /\ UNCHANGED b

\* b.backend
Backend_key_backend ==
    /\ out.made < MaxBackends
    /\ IsUriPath(b.cls)
    /\ b' = backend(b, out.made).self
    /\ out' = BackendOut("backend", Uri__new__, "", backend(b, out.made).made, None, FALSE)
    /\ UNCHANGED a

\* a / b
Backend_truediv ==
    /\ out' = BackendOut("__truediv__",
                         UriPath_new(a.cls, <<PathItem(a), PathItem(b)>>, NoMap, TRUE).val,
                         UriPath_new(a.cls, <<PathItem(a), PathItem(b)>>, NoMap, TRUE).err,
                         out.made, Live(a, b), FALSE)
    /\ UNCHANGED <<a, b>>

\* type(a)(a, b), and a read of its source
Backend_join ==
    /\ out' = BackendOut("join",
                         UriPath_accessed(
                             UriPath_new(a.cls, <<PathItem(a), PathItem(b)>>, NoMap, FALSE).val),
                         "", out.made, Live(a, b), FALSE)
    /\ UNCHANGED <<a, b>>

\* a.with_path(path)
Backend_with_path(path) ==
    /\ out' = BackendOut("with_path", with_path(a, path), "", out.made, a.backend, FALSE)
    /\ UNCHANGED <<a, b>>

\* a.with_query(query)
Backend_with_query(query) ==
    /\ out' = BackendOut("with_query", with_query(a, query), "", out.made, a.backend, FALSE)
    /\ UNCHANGED <<a, b>>

\* a.with_fragment(fragment)
Backend_with_fragment(fragment) ==
    /\ out' = BackendOut("with_fragment", with_fragment(a, fragment), "", out.made,
                         a.backend, FALSE)
    /\ UNCHANGED <<a, b>>

\* a.with_name(name)
Backend_with_name(name) ==
    /\ out' = BackendOut("with_name", with_name(a, name).uri, with_name(a, name).ret.err,
                         out.made, a.backend, FALSE)
    /\ UNCHANGED <<a, b>>

\* a.with_source(source)
Backend_with_source(source) ==
    /\ out' = BackendOut("with_source", UriPath_with_source_cls(a, source).uri,
                         UriPath_with_source_cls(a, source).ret.err, out.made,
                         IF source.scheme = a.parts.source.scheme THEN a.backend ELSE None,
                         FALSE)
    /\ UNCHANGED <<a, b>>

\* a.with_backend(backend), the backend being one the caller made
Backend_with_backend ==
    /\ out.made < MaxBackends
    /\ a' = with_backend(a, Backend(out.made + 1))
    /\ out' = BackendOut("with_backend", Uri__new__, "", out.made + 1, None, FALSE)
    /\ UNCHANGED b

\* r.backend, r being the path last derived
Backend_derived_backend ==
    /\ out.made < MaxBackends
    /\ out.op \in {"__truediv__", "join", "with_path", "with_query", "with_fragment",
                   "with_name", "with_source"}
    /\ out.err = ""
    /\ IsUriPath(out.r.cls)
    /\ out' = BackendOut("derived.backend", backend(out.r, out.made).self, "",
                         backend(out.r, out.made).made, out.live,
                         backend(out.r, out.made).made # out.made)
    /\ UNCHANGED <<a, b>>

NextBackend ==
    \/ Backend_backend
    \/ Backend_key_backend
    \/ Backend_truediv
    \/ Backend_join
    \/ \E path \in {<<"/", "z">>, EMPTY} : Backend_with_path(path)
    \/ \E query \in {<<"q">>} : Backend_with_query(query)
    \/ \E fragment \in {<<"f">>} : Backend_with_fragment(fragment)
    \/ \E name \in {<<"n">>} : Backend_with_name(name)
    \/ \E source \in {SFTP_SOURCE, Source(SFTP, None, EMPTY \o HOST, 22),
                      Source(FTP, None, EMPTY \o HOST, NoPort), NOSOURCE} :
          Backend_with_source(source)
    \/ Backend_with_backend
    \/ Backend_derived_backend

SpecBackend == InitBackend /\ [][NextBackend]_vars

\* C14: a path derived with '/', with_path, with_query, with_fragment,
\* with_name or with_source to the same scheme, from operands of which one
\* holds a backend for the scheme, is made without error and holds that
\* backend, the rightmost operand's when several hold one; reading its
\* backend makes no new one
C14_BackendInherited ==
    /\ (/\ out.op \in {"__truediv__", "with_path", "with_query", "with_fragment",
                       "with_name", "with_source"}
        /\ out.live # None) =>
           /\ out.err = ""
           /\ out.r.backend = out.live
    /\ (out.op = "derived.backend" /\ out.live # None) => ~out.again

\* ------------------------------------------------------------------------
\* Glob (SpecGlob, uripath/glob.py): a is the tree of a file backend, b the
\* pattern path and out what iglob(b) last gave.  A path of the tree is the
\* sequence of its names from the root, which stands for the directory the
\* relative patterns start from; a pattern path is its segments and whether
\* it is written with a slash at its end.
\* ------------------------------------------------------------------------

\* the tree: the directories and the files under the root
Tree(dirs, files) == [dirs |-> dirs, files |-> files]

\* the paths the tree may hold
GLOB_DIRS == { <<<<"a">>>>, <<<<"a">>, <<"s">>>>, <<<<"a">>, <<".", "h">>>> }
GLOB_FILES ==
    { <<<<"a">>, <<"b", ".", "t">>>>,
      <<<<"a">>, <<".", "x", ".", "t">>>>,
      <<<<"a">>, <<"s">>, <<"d", ".", "t">>>>,
      <<<<"a">>, <<".", "h">>, <<"e", ".", "t">>>> }

\* path.parent of a path of one name or more
Parent(p) == SubSeq(p, 1, Len(p) - 1)

\* path.name: the last name, "" for the root
Name(p) == IF p = <<>> THEN EMPTY ELSE p[Len(p)]

\* PathProtocol.is_hidden
is_hidden(p) == startswith(Name(p), <<".">>)

\* PathProtocol.is_dir: stat's type bits, False when stat fails
is_dir(fs, p) == p = <<>> \/ p \in fs.dirs

\* the entries of a set in the order a listing gives them
RECURSIVE Listed(_)
Listed(S) ==
    IF S = {} THEN <<>>
    ELSE <<CHOOSE x \in S : TRUE>> \o Listed(S \ {CHOOSE x \in S : TRUE})

\* iter(path) of the file backend: the children of a directory,
\* NotADirectoryError for a file, FileNotFoundError for no entry
tree_iterdir(fs, p) ==
    IF is_dir(fs, p)
    THEN Ok(Listed({q \in fs.dirs \cup fs.files : Len(q) = Len(p) + 1 /\ Parent(q) = p}))
    ELSE IF p \in fs.files THEN Raise("NotADirectoryError")
    ELSE Raise("FileNotFoundError")

\* the items of a sequence that satisfy Keep, in order
Kept(s, Keep(_)) ==
    LET F[i \in 0..Len(s)] ==
            IF i = 0 THEN <<>>
            ELSE IF Keep(s[i]) THEN Append(F[i - 1], s[i]) ELSE F[i - 1]
    IN  F[Len(s)]

\* glob._iterdir(path, dironly): the exception of the listing is not caught
glob_iterdir(fs, p, dironly) ==
    IF tree_iterdir(fs, p).err # "" THEN tree_iterdir(fs, p)
    ELSE Ok(Kept(tree_iterdir(fs, p).val, LAMBDA e : ~dironly \/ is_dir(fs, e)))

\* has_glob_wildard(s)
has_glob_wildard(s) == \E i \in DOMAIN s : s[i] \in {"*", "?", "["}

\* the index of the "]" that closes the class opened at pat[1], 0 when there
\* is none
class_end(pat) ==
    IF \E k \in 3..Len(pat) : pat[k] = "]"
    THEN CHOOSE k \in 3..Len(pat) : pat[k] = "]" /\ \A j \in 3..(k - 1) : pat[j] # "]"
    ELSE 0

\* c is matched by the class pat[1..k] = [...] or [!...]
in_class(c, pat, k) ==
    IF pat[2] = "!" THEN \A j \in 3..(k - 1) : pat[j] # c
    ELSE \E j \in 2..(k - 1) : pat[j] = c

\* re.compile(fnmatch.translate(pat)).match(name)
RECURSIVE fnmatch(_, _)
fnmatch(name, pat) ==
    IF pat = <<>> THEN name = <<>>
    ELSE IF pat[1] = "*"
    THEN fnmatch(name, Tail(pat)) \/ (name # <<>> /\ fnmatch(Tail(name), pat))
    ELSE IF name = <<>> THEN FALSE
    ELSE IF pat[1] = "?" THEN fnmatch(Tail(name), Tail(pat))
    ELSE IF pat[1] = "[" /\ class_end(pat) # 0
    THEN in_class(name[1], pat, class_end(pat))
         /\ fnmatch(Tail(name), SubSeq(pat, class_end(pat) + 1, Len(pat)))
    ELSE name[1] = pat[1] /\ fnmatch(Tail(name), Tail(pat))

\* compile_pattern(pat, case_sensitive)
compile_pattern(pat, case_sensitive) == [pat |-> pat, case_sensitive |-> case_sensitive]

\* pattern.match(name) is not None
pattern_match(pattern, name) ==
    IF pattern.case_sensitive THEN fnmatch(name, pattern.pat)
    ELSE fnmatch(lower(name), lower(pattern.pat))

\* what a generator gave before it ended: val, and err when it ended with an
\* exception
Gave(err, val) == [err |-> err, val |-> val]

\* _glob_with_pattern(parent, pattern, dironly, include_hidden); none: the
\* parent is None, which cannot be iterated
glob_with_pattern(fs, none, dir, pattern, dironly, include_hidden) ==
    IF none THEN Gave("TypeError", <<>>)
    ELSE IF glob_iterdir(fs, dir, dironly).err # ""
    THEN Gave(glob_iterdir(fs, dir, dironly).err, <<>>)
    ELSE Gave("", Kept(glob_iterdir(fs, dir, dironly).val,
                       LAMBDA p : (include_hidden \/ ~is_hidden(p))
                                  /\ pattern_match(pattern, Name(p))))

\* _rlistdir(dirname, dironly, include_hidden), and its loop from the i-th
\* entry on, acc being what was yielded before it
RECURSIVE rlistdir(_, _, _, _)
RECURSIVE rlistdir_from(_, _, _, _, _, _)
RECURSIVE rlistdir_in(_, _, _, _, _, _, _)
rlistdir(fs, dirname, dironly, include_hidden) ==
    IF glob_iterdir(fs, dirname, dironly).err # ""
    THEN Gave(glob_iterdir(fs, dirname, dironly).err, <<>>)
    ELSE rlistdir_from(fs, glob_iterdir(fs, dirname, dironly).val, 1, dironly,
                       include_hidden, <<>>)

rlistdir_from(fs, entries, i, dironly, include_hidden, acc) ==
    IF i > Len(entries) THEN Gave("", acc)
    ELSE IF ~(include_hidden \/ ~is_hidden(entries[i]))
    THEN rlistdir_from(fs, entries, i + 1, dironly, include_hidden, acc)
    ELSE rlistdir_in(fs, entries, i, dironly, include_hidden, Append(acc, entries[i]),
                     rlistdir(fs, entries[i], dironly, include_hidden))

\* the entry was yielded and _rlistdir(entry) gave sub
rlistdir_in(fs, entries, i, dironly, include_hidden, acc, sub) ==
    IF sub.err # "" THEN Gave(sub.err, acc \o sub.val)
    ELSE rlistdir_from(fs, entries, i + 1, dironly, include_hidden, acc \o sub.val)

\* _glob_recursive(parent, pattern, dironly, include_hidden), rest being
\* what _rlistdir(parent) gave
glob_recursive_of(fs, dir, rest) ==
    Gave(rest.err, (IF is_dir(fs, dir) THEN <<dir>> ELSE <<>>) \o rest.val)

glob_recursive(fs, dir, pattern, dironly, include_hidden) ==
    glob_recursive_of(fs, dir, rlistdir(fs, dir, dironly, include_hidden))

\* glob_in_dir(parent, pattern, dironly, include_hidden) of _iglob
glob_in_dir(fs, rec, dir, pattern, dironly, include_hidden) ==
    IF rec THEN glob_recursive(fs, dir, pattern, dironly, include_hidden)
    ELSE glob_with_pattern(fs, FALSE, dir, pattern, dironly, include_hidden)

\* the loop `for parent in dirs` of _iglob from the i-th directory on; the
\* exception dirs ended with is raised after what it yielded was used
RECURSIVE glob_dirs_from(_, _, _, _, _, _, _, _)
RECURSIVE glob_dirs_in(_, _, _, _, _, _, _, _, _)
glob_dirs_from(fs, rec, dirs, i, pattern, dironly, include_hidden, acc) ==
    IF i > Len(dirs.val) THEN Gave(dirs.err, acc)
    ELSE glob_dirs_in(fs, rec, dirs, i, pattern, dironly, include_hidden, acc,
                      glob_in_dir(fs, rec, dirs.val[i], pattern, dironly, include_hidden))

glob_dirs_in(fs, rec, dirs, i, pattern, dironly, include_hidden, acc, found) ==
    IF found.err # "" THEN Gave(found.err, acc \o found.val)
    ELSE glob_dirs_from(fs, rec, dirs, i + 1, pattern, dironly, include_hidden,
                        acc \o found.val)

\* os.fspath(path) of a pattern path
pathname(path) == join(path.segs, <<"/">>) \o (IF path.slash THEN <<"/">> ELSE EMPTY)

RECURSIVE_ == <<"*", "*">>

\* _iglob(path, None, recursive, dironly, include_hidden, case_sensitive):
\* the include_hidden it is given is replaced by path.name.startswith(".")
RECURSIVE iglob_(_, _, _, _, _, _)
iglob_(fs, path, recursive, dironly, include_hidden, case_sensitive) ==
    IF ~has_glob_wildard(pathname(path))
    THEN IF dironly THEN Gave("AssertionError", <<>>)
         ELSE IF ~path.slash
         THEN glob_with_pattern(fs, path.segs = <<>>, Parent(path.segs),
                                compile_pattern(Name(path.segs), case_sensitive), FALSE,
                                is_hidden(path.segs))
         ELSE IF path.segs # <<>>
         THEN glob_with_pattern(fs, FALSE, Parent(Parent(path.segs)),
                                compile_pattern(Name(path.segs), case_sensitive), FALSE,
                                is_hidden(path.segs))
         ELSE Gave("", <<>>)
    ELSE IF path.segs = <<>> THEN Gave("TypeError", <<>>)
    ELSE glob_dirs_from(fs, recursive /\ Name(path.segs) = RECURSIVE_,
             IF has_glob_wildard(Name(Parent(path.segs)))
             THEN iglob_(fs, [segs |-> Parent(path.segs), slash |-> FALSE], recursive, TRUE,
                         is_hidden(path.segs), case_sensitive)
             ELSE Gave("", <<Parent(path.segs)>>),
             1, compile_pattern(Name(path.segs), case_sensitive), dironly,
             is_hidden(path.segs), <<>>)

\* iglob(path, recursive=..., include_hidden=..., case_sensitive=...): the
\* first item it takes off an empty or "**" pattern is a path object, which
\* is true, and is put back
iglob(fs, path, recursive, include_hidden, case_sensitive) ==
    iglob_(fs, path, recursive, FALSE, include_hidden, case_sensitive)

\* a pattern path
Pattern(segs, slash) == [segs |-> segs, slash |-> slash]

STAR == <<"*">>
STAR_T == <<"*", ".", "t">>

\* the patterns globbed
GLOB_PATTERNS ==
    { Pattern(<<<<"a">>, STAR_T>>, FALSE),
      Pattern(<<<<"a">>, STAR>>, FALSE),
      Pattern(<<STAR, <<"s">>, <<"d", ".", "t">>>>, FALSE),
      Pattern(<<<<"a">>, STAR, <<"d", ".", "t">>>>, FALSE),
      Pattern(<<<<"a">>, <<"?", ".", "t">>>>, FALSE),
      Pattern(<<<<"a">>, <<"[", "b", "c", "]", ".", "t">>>>, FALSE),
      Pattern(<<<<"a">>, <<"b", ".", "t">>>>, FALSE),
      Pattern(<<<<"a">>, RECURSIVE_>>, FALSE),
      Pattern(<<<<"a">>, RECURSIVE_, STAR_T>>, FALSE),
      Pattern(<<<<"a">>, <<".", "*">>>>, FALSE),
      Pattern(<<<<"a">>, <<"*", ".", "T">>>>, FALSE),
      Pattern(<<<<"a">>, <<"s">>>>, TRUE),
      Pattern(<<<<"a">>, STAR>>, TRUE) }

\* op: the operation; recursive, include_hidden, case_sensitive: the
\* arguments of iglob; err and val: what list(iglob(...)) raised and what
\* was yielded before
GlobOut(op, recursive, include_hidden, case_sensitive, res) ==
    [op |-> op, recursive |-> recursive, include_hidden |-> include_hidden,
     case_sensitive |-> case_sensitive, err |-> res.err, val |-> res.val]

InitGlob ==
    /\ a = Tree({}, {})
    /\ b \in GLOB_PATTERNS
    /\ out = GlobOut("Uri", FALSE, FALSE, TRUE, Gave("", <<>>))

\* p.mkdir() under an existing directory
Glob_mkdir(p) ==
    /\ p \notin a.dirs
    /\ is_dir(a, Parent(p))
    /\ a' = Tree(a.dirs \cup {p}, a.files)
    /\ out' = GlobOut("mkdir", FALSE, FALSE, TRUE, Gave("", <<>>))
    /\ UNCHANGED b

\* p.touch() under an existing directory
Glob_touch(p) ==
    /\ p \notin a.files
    /\ is_dir(a, Parent(p))
    /\ a' = Tree(a.dirs, a.files \cup {p})
    /\ out' = GlobOut("touch", FALSE, FALSE, TRUE, Gave("", <<>>))
    /\ UNCHANGED b

\* list(iglob(b, recursive=..., include_hidden=..., case_sensitive=...))
Glob_iglob(recursive, include_hidden, case_sensitive) ==
    /\ out' = GlobOut("iglob", recursive, include_hidden, case_sensitive,
                      iglob(a, b, recursive, include_hidden, case_sensitive))
    /\ UNCHANGED <<a, b>>

NextGlob ==
    \/ \E p \in GLOB_DIRS : Glob_mkdir(p)
    \/ \E p \in GLOB_FILES : Glob_touch(p)
    \/ \E recursive \in BOOLEAN, include_hidden \in BOOLEAN, case_sensitive \in BOOLEAN :
          Glob_iglob(recursive, include_hidden, case_sensitive)

SpecGlob == InitGlob /\ [][NextGlob]_vars

\* the paths that exist in the tree
Existing(fs) == fs.dirs \cup fs.files

\* a name matches a segment of the pattern: a literal segment is the name, a
\* wildcard segment matches it and a hidden name needs a segment that starts
\* with "."
SegmentMatches(name, seg) ==
    IF has_glob_wildard(seg)
    THEN fnmatch(name, seg) /\ (startswith(name, <<".">>) => startswith(seg, <<".">>))
    ELSE name = seg

\* the literal segments before the first wildcard segment name a directory
\* of the tree
LiteralPrefixExists(fs, segs) ==
    \A i \in 0..(Len(segs) - 1) :
        (\A j \in 1..i : ~has_glob_wildard(segs[j])) => is_dir(fs, SubSeq(segs, 1, i))

\* C15: without recursive and include_hidden, iglob yields exactly the
\* existing paths whose names match the pattern's segments one by one,
\* wherever the wildcard segments are, and raises nothing
C15_GlobMatches ==
    (/\ out.op = "iglob"
     /\ ~out.recursive /\ ~out.include_hidden /\ out.case_sensitive
     /\ ~b.slash
     /\ LiteralPrefixExists(a, b.segs)) =>
        /\ out.err = ""
        /\ Range(out.val) =
              {q \in Existing(a) : /\ Len(q) = Len(b.segs)
                                   /\ \A i \in DOMAIN q : SegmentMatches(q[i], b.segs[i])}

\* p is q or an ancestor of q
IsPrefix(p, q) == Len(p) <= Len(q) /\ SubSeq(q, 1, Len(p)) = p

\* the position of the "**" segment of the pattern, 0 when it has none
StarStar(segs) ==
    IF \E i \in DOMAIN segs : segs[i] = RECURSIVE_
    THEN CHOOSE i \in DOMAIN segs : segs[i] = RECURSIVE_
    ELSE 0

\* the directory the "**" segment stands in, and the directories "**"
\* stands for: that directory and the directories below it that no hidden
\* name leads to
Base(segs) == SubSeq(segs, 1, StarStar(segs) - 1)
Below(fs, segs) ==
    {d \in fs.dirs \cup {<<>>} :
        /\ IsPrefix(Base(segs), d)
        /\ \A i \in (Len(Base(segs)) + 1)..Len(d) : ~startswith(d[i], <<".">>)}

\* a directory comes before everything that was yielded from inside it
PreOrder(val) ==
    \A i, j \in DOMAIN val : (val[i] # val[j] /\ IsPrefix(val[i], val[j])) => i < j

\* C16: with recursive=True a "**" segment of an existing directory gives
\* the directory and every directory below it, each before its children, and
\* raises nothing on a tree with files; with a wildcard segment after it the
\* matching entries of all these directories are yielded
C16_Recursive ==
    (/\ out.op = "iglob"
     /\ out.recursive /\ ~out.include_hidden /\ out.case_sensitive
     /\ StarStar(b.segs) # 0
     /\ is_dir(a, Base(b.segs))) =>
        /\ out.err = ""
        /\ StarStar(b.segs) = Len(b.segs) =>
              /\ Below(a, b.segs) \subseteq Range(out.val)
              /\ PreOrder(out.val)
        /\ StarStar(b.segs) = Len(b.segs) - 1 =>
              Range(out.val) =
                  {q \in Existing(a) : /\ Parent(q) \in Below(a, b.segs)
                                       /\ SegmentMatches(Name(q), Name(b.segs))}

\* the hidden entries the last segment of the pattern matches in the
\* directory before it
HiddenMatches(fs, segs) ==
    {q \in Existing(fs) : /\ Parent(q) = Parent(segs)
                          /\ startswith(Name(q), <<".">>)
                          /\ fnmatch(Name(q), Name(segs))}

\* C17: a wildcard segment yields an entry whose name starts with "." iff
\* include_hidden=True was passed or the segment itself starts with ".";
\* with neither, nothing under a hidden name is yielded, by "**" either
C17_Hidden ==
    (/\ out.op = "iglob"
     /\ out.case_sensitive
     /\ ~b.slash
     /\ has_glob_wildard(Name(b.segs))
     /\ is_dir(a, Parent(b.segs))) =>
        /\ (~out.recursive /\ ~has_glob_wildard(pathname(Pattern(Parent(b.segs), FALSE)))) =>
              \A h \in HiddenMatches(a, b.segs) :
                  h \in Range(out.val)
                      <=> (out.include_hidden \/ startswith(Name(b.segs), <<".">>))
        /\ (~out.include_hidden /\ ~startswith(Name(b.segs), <<".">>)) =>
              \A i \in DOMAIN out.val :
                  \A k \in (Len(Parent(b.segs)) + 1)..Len(out.val[i]) :
                      ~startswith(out.val[i][k], <<".">>)


\* ---------------------------------------------------------------------
\* UriSyncer.sync over the file backend
\* ---------------------------------------------------------------------
\* A tree under a root: what every path holds, "-" for nothing, "d" for a
\* directory, the content for a file.  The root <<>> stands in an existing
\* directory; every other entry stands in a directory of the tree.
\* CONTENTS: the contents that are written; NODATA: the content of a file
\* that was opened for writing and not written to
CONTENTS == {"x", "y"}
NODATA == ""
DATA == CONTENTS \cup {NODATA}
SYNC_NAMES == <<"f", "g">>
SYNC_PATHS == {<<>>, <<"f">>, <<"g">>, <<"f", "f">>}
NoTree == [p \in SYNC_PATHS |-> "-"]

\* the checksum callables handed to UriSyncer: one that tells the contents
\* apart and one that does not (the size of the file, say)
CHECKSUMS == {[data \in DATA |-> IF data = "x" THEN 1 ELSE 2], [data \in DATA |-> 1]}

Node(fs, p) == IF p \in DOMAIN fs THEN fs[p] ELSE "-"
UnderFile(fs, p) == \E k \in 0..(Len(p) - 1) : Node(fs, SubSeq(p, 1, k)) \in DATA
InDirectory(fs, p) == p = <<>> \/ Node(fs, Parent(p)) = "d"

\* the error of a system call on a path with no entry
NoEntry(fs, p) == IF UnderFile(fs, p) THEN "NotADirectoryError" ELSE "FileNotFoundError"

\* FileUri.stat: pathlib.Path.stat
FileUri_stat(fs, p) ==
    IF Node(fs, p) # "-" THEN Gave("", Node(fs, p)) ELSE Gave(NoEntry(fs, p), "-")

\* FileUri._ls: the names pathlib.Path.iterdir lists
FileUri_ls(fs, p) ==
    IF Node(fs, p) = "d"
    THEN Gave("", SelectSeq(SYNC_NAMES, LAMBDA n : Node(fs, Append(p, n)) # "-"))
    ELSE IF Node(fs, p) \in DATA THEN Gave("NotADirectoryError", <<>>)
    ELSE Gave(NoEntry(fs, p), <<>>)

\* FileUri.mkdir: pathlib.Path.mkdir(mode, False, False)
FileUri_mkdir(fs, p) ==
    IF Node(fs, p) # "-" THEN Gave("FileExistsError", fs)
    ELSE IF ~InDirectory(fs, p) THEN Gave(NoEntry(fs, p), fs)
    ELSE Gave("", [fs EXCEPT ![p] = "d"])

\* FileUri.unlink: pathlib.Path.unlink(False)
FileUri_unlink(fs, p) ==
    IF Node(fs, p) \in DATA THEN Gave("", [fs EXCEPT ![p] = "-"])
    ELSE IF Node(fs, p) = "d" THEN Gave("IsADirectoryError", fs)
    ELSE Gave(NoEntry(fs, p), fs)

\* FileUri.rmdir: pathlib.Path.rmdir, of an empty directory only
FileUri_rmdir(fs, p) ==
    IF Node(fs, p) \in DATA THEN Gave("NotADirectoryError", fs)
    ELSE IF Node(fs, p) = "-" THEN Gave(NoEntry(fs, p), fs)
    ELSE IF FileUri_ls(fs, p).val # <<>> THEN Gave("OSError", fs)
    ELSE Gave("", [fs EXCEPT ![p] = "-"])

\* FileUri.open(mode="wb") and the write of data that follows
FileUri_open_wb(fs, p, data) ==
    IF Node(fs, p) = "d" THEN Gave("IsADirectoryError", fs)
    ELSE IF ~InDirectory(fs, p) THEN Gave(NoEntry(fs, p), fs)
    ELSE Gave("", [fs EXCEPT ![p] = data])

\* Uri.exists: stat, and only FileNotFoundError means no
Uri_exists_of(r) ==
    IF r.err = "" THEN Gave("", TRUE)
    ELSE IF r.err = "FileNotFoundError" THEN Gave("", FALSE)
    ELSE Gave(r.err, FALSE)
Uri_exists(fs, p) == Uri_exists_of(FileUri_stat(fs, p))

\* Uri.is_file, Uri.is_dir: the mode of stat, False for the errors
\* pathlib._ignore_error ignores (ENOENT, ENOTDIR)
Uri_is_file(fs, p) == Node(fs, p) \in DATA
Uri_is_dir(fs, p) == Node(fs, p) = "d"

RECURSIVE Uri_rm(_, _, _)
RECURSIVE Uri_rm_childs(_, _, _, _)

\* Uri.rm(recursive=True, missing_ok=...): the children first, then the
\* directory; the first error is raised again (ignore_error is False)
Uri_rm_rmdir(p, r) == IF r.err # "" THEN r ELSE FileUri_rmdir(r.val, p)
Uri_rm_next(p, names, i, r) ==
    IF r.err # "" THEN r ELSE Uri_rm_childs(r.val, p, names, i + 1)
Uri_rm_childs(fs, p, names, i) ==
    IF i > Len(names) THEN Gave("", fs)
    ELSE Uri_rm_next(p, names, i, Uri_rm(fs, Append(p, names[i]), FALSE))
Uri_rm_of(fs, p, missing_ok, found) ==
    IF found.err # "" THEN Gave(found.err, fs)
    ELSE IF ~found.val
    THEN (IF missing_ok THEN Gave("", fs) ELSE Gave("FileNotFoundError", fs))
    ELSE IF Uri_is_dir(fs, p)
    THEN Uri_rm_rmdir(p, Uri_rm_childs(fs, p, FileUri_ls(fs, p).val, 1))
    ELSE FileUri_unlink(fs, p)
Uri_rm(fs, p, missing_ok) == Uri_rm_of(fs, p, missing_ok, Uri_exists(fs, p))

\* Uri.copy(target) of the source entry at p onto the target entry at p:
\* FileExistsError for an existing target (overwrite is False), then the
\* content of the source, a file where sync calls copy, written to the target
Uri_copy_of(s, t, p, found, stated) ==
    IF found.err # "" THEN Gave(found.err, t)
    ELSE IF found.val THEN Gave("FileExistsError", t)
    ELSE IF stated.err # "" THEN Gave(stated.err, t)
    ELSE FileUri_open_wb(t, p, stated.val)
Uri_copy(s, t, p) == Uri_copy_of(s, t, p, Uri_exists(t, p), FileUri_stat(s, p))

\* the run of sync so far: the target tree, the events hook was called
\* with, and the exception that ended it ("" when none)
Run(t, ev, err) == [t |-> t, ev |-> ev, err |-> err]

\* UriSyncer.hook(source, target, event, dry_run): source and target are
\* the same path p under their roots
hook(st, event, p) ==
    IF st.err # "" THEN st ELSE Run(st.t, Append(st.ev, <<event, p>>), "")

\* a call that changes the target, or raises
Did(st, r) ==
    IF st.err # "" THEN st
    ELSE IF r.err # "" THEN Run(st.t, st.ev, r.err)
    ELSE Run(r.val, st.ev, "")

RECURSIVE sync_(_, _, _, _, _, _)
RECURSIVE sync_childs(_, _, _, _, _, _, _, _)
RECURSIVE sync_remove(_, _, _, _, _, _)

\* sync l.48-52: no source
sync_missing(st, p, dry_run, remove_missing) ==
    IF ~remove_missing THEN st
    ELSE hook(IF dry_run THEN st ELSE Did(st, Uri_rm(st.t, p, TRUE)), "RemovedMissing", p)

\* sync l.54-63: the source is a file
sync_copy_skipped(s, st, p) == st
sync_copy(s, st, p) ==
    IF st.err # "" THEN st ELSE Did(st, Uri_copy(s, st.t, p))
sync_file_unchecked(s, st, p, dry_run, checksum) ==
    hook(IF dry_run THEN st ELSE sync_copy(s, Did(st, Uri_rm(st.t, p, TRUE)), p), "Copy", p)
sync_file(s, st, p, dry_run, checksum) ==
    IF Uri_is_file(st.t, p) /\ checksum[st.t[p]] = checksum[s[p]] THEN st
    ELSE hook(IF dry_run THEN st ELSE sync_copy(s, Did(st, Uri_rm(st.t, p, TRUE)), p),
              "Copy", p)

\* sync l.65-67: a file where the directory goes
sync_unlink(st, p, dry_run) ==
    IF Uri_is_file(st.t, p) /\ ~dry_run THEN Did(st, FileUri_unlink(st.t, p)) ELSE st

\* sync l.69-72: the directory is made
sync_mkdir_of(st, p, dry_run, found) ==
    IF found.err # "" THEN Run(st.t, st.ev, found.err)
    ELSE IF found.val THEN st
    ELSE hook(IF dry_run THEN st ELSE Did(st, FileUri_mkdir(st.t, p)), "CreatedDirectory", p)
sync_mkdir(st, p, dry_run) ==
    IF st.err # "" THEN st ELSE sync_mkdir_of(st, p, dry_run, Uri_exists(st.t, p))

\* sync l.73-76: every child of the source against target / child.name
sync_childs(s, st, p, names, i, dry_run, remove_missing, checksum) ==
    IF i > Len(names) \/ st.err # "" THEN st
    ELSE sync_childs(s, sync_(s, st, Append(p, names[i]), dry_run, remove_missing, checksum),
                     p, names, i + 1, dry_run, remove_missing, checksum)

\* sync l.77-82: the children of the target the source has not
sync_remove_one(st, p, name, dry_run, childs) ==
    IF name \in Range(childs) THEN st
    ELSE hook(IF dry_run THEN st ELSE Did(st, Uri_rm(st.t, Append(p, name), FALSE)),
              "RemovedMissing", p)
sync_remove(st, p, names, i, dry_run, childs) ==
    IF i > Len(names) \/ st.err # "" THEN st
    ELSE sync_remove(sync_remove_one(st, p, names[i], dry_run, childs),
                     p, names, i + 1, dry_run, childs)
sync_removed_of(st, p, dry_run, childs, listed) ==
    IF listed.err # "" THEN Run(st.t, st.ev, listed.err)
    ELSE sync_remove(st, p, listed.val, 1, dry_run, childs)
sync_removed(st, p, dry_run, remove_missing, childs) ==
    IF st.err # "" \/ ~remove_missing THEN st
    ELSE sync_removed_of(st, p, dry_run, childs, FileUri_ls(st.t, p))

\* sync l.64-82: the source is a directory
sync_dir(s, st, p, dry_run, remove_missing, checksum) ==
    sync_removed(
        sync_childs(s, sync_mkdir(sync_unlink(st, p, dry_run), p, dry_run),
                    p, FileUri_ls(s, p).val, 1, dry_run, remove_missing, checksum),
        p, dry_run, remove_missing, FileUri_ls(s, p).val)

sync_case(s, st, p, dry_run, remove_missing, checksum) ==
    IF ~Uri_exists(s, p).val THEN sync_missing(st, p, dry_run, remove_missing)
    ELSE IF Uri_is_file(s, p) THEN sync_file(s, st, p, dry_run, checksum)
    ELSE sync_dir(s, st, p, dry_run, remove_missing, checksum)

\* UriSyncer(checksum, remove_missing).sync(source, target, dry_run), for
\* the entries at p of the source tree s and of the target tree st.t
sync_synced_first(s, st, p, dry_run, remove_missing, checksum) ==
    sync_case(s, hook(hook(st, "SyncStart", p), "Synced", p), p, dry_run, remove_missing, checksum)
sync_(s, st, p, dry_run, remove_missing, checksum) ==
    IF st.err # "" THEN st
    ELSE hook(sync_case(s, hook(st, "SyncStart", p), p, dry_run, remove_missing, checksum),
              "Synced", p)

sync(s, t, dry_run, remove_missing, checksum) ==
    sync_(s, Run(t, <<>>, ""), <<>>, dry_run, remove_missing, checksum)

\* what the last call was, the target before it, and what sync gave
SyncOut(op, dry_run, remove_missing, checksum, before, st) ==
    [op |-> op, dry_run |-> dry_run, remove_missing |-> remove_missing,
     checksum |-> checksum, before |-> before, ev |-> st.ev, err |-> st.err]
NoSync(op) ==
    SyncOut(op, FALSE, FALSE, [data \in DATA |-> 1], NoTree, Run(NoTree, <<>>, ""))

\* a: the tree under source, b: the tree under target
InitSync ==
    /\ a = NoTree
    /\ b = NoTree
    /\ out = NoSync("Uri")

\* (source / p).mkdir() and (source / p).write_bytes(data), for a new entry
Sync_source_mkdir(p) ==
    /\ FileUri_mkdir(a, p).err = ""
    /\ a' = FileUri_mkdir(a, p).val
    /\ out' = NoSync("mkdir")
    /\ UNCHANGED b
Sync_source_write(p, data) ==
    /\ Node(a, p) = "-"
    /\ FileUri_open_wb(a, p, data).err = ""
    /\ a' = FileUri_open_wb(a, p, data).val
    /\ out' = NoSync("write_bytes")
    /\ UNCHANGED b

\* (target / p).mkdir() and (target / p).write_bytes(data), for a new entry
Sync_target_mkdir(p) ==
    /\ FileUri_mkdir(b, p).err = ""
    /\ b' = FileUri_mkdir(b, p).val
    /\ out' = NoSync("mkdir")
    /\ UNCHANGED a
Sync_target_write(p, data) ==
    /\ Node(b, p) = "-"
    /\ FileUri_open_wb(b, p, data).err = ""
    /\ b' = FileUri_open_wb(b, p, data).val
    /\ out' = NoSync("write_bytes")
    /\ UNCHANGED a

\* UriSyncer(checksum, remove_missing=...).sync(source, target, dry_run)
Sync_sync(dry_run, remove_missing, checksum) ==
    /\ b' = sync(a, b, dry_run, remove_missing, checksum).t
    /\ out' = SyncOut("sync", dry_run, remove_missing, checksum, b,
                      sync(a, b, dry_run, remove_missing, checksum))
    /\ UNCHANGED a

NextSync ==
    \/ \E p \in SYNC_PATHS : Sync_source_mkdir(p)
    \/ \E p \in SYNC_PATHS, data \in CONTENTS : Sync_source_write(p, data)
    \/ \E p \in SYNC_PATHS : Sync_target_mkdir(p)
    \/ \E p \in SYNC_PATHS, data \in CONTENTS : Sync_target_write(p, data)
    \/ \E dry_run \in BOOLEAN, remove_missing \in BOOLEAN, checksum \in CHECKSUMS :
          Sync_sync(dry_run, remove_missing, checksum)

SpecSync == InitSync /\ [][NextSync]_vars


\* the events of one kind, and the paths sync gave a Copy event for
Events(ev, event) == {i \in DOMAIN ev : ev[i][1] = event}
Copied(ev, p) == \E i \in Events(ev, "Copy") : ev[i][2] = p

\* the target file at p has the checksum of the source file at p
SameChecksum(checksum, s, t, p) ==
    /\ s[p] \in DATA
    /\ t[p] \in DATA
    /\ checksum[t[p]] = checksum[s[p]]

\* sync was called for the entries at p
Started(ev, p) == \E i \in Events(ev, "SyncStart") : ev[i][2] = p

\* C18: sync called for a source file gives a Copy event iff the target
\* there was not a file or had another checksum, the target file is then a
\* copy of the source unless dry_run, and a second run after a run without
\* error and without dry_run gives no Copy event
C18_CopyIff ==
    out.op = "sync" =>
        /\ \A p \in SYNC_PATHS :
              (a[p] \in DATA /\ Started(out.ev, p)) =>
                  /\ Copied(out.ev, p) <=> ~SameChecksum(out.checksum, a, out.before, p)
                  /\ (Copied(out.ev, p) /\ ~out.dry_run) => b[p] = a[p]
                  /\ out.dry_run => b[p] = out.before[p]
        /\ (out.err = "" /\ ~out.dry_run) =>
              \A dry_run \in BOOLEAN :
                  Events(sync(a, b, dry_run, out.remove_missing, out.checksum).ev, "Copy") = {}

\* a run without dry_run that copied one file over a file of another
\* checksum and left a file of the same checksum alone
C18_Witness ==
    /\ out.op = "sync" /\ ~out.dry_run /\ out.err = ""
    /\ \E p, q \in SYNC_PATHS :
          /\ a[p] \in DATA /\ out.before[p] \in DATA
          /\ out.checksum[out.before[p]] # out.checksum[a[p]]
          /\ Copied(out.ev, p) /\ b[p] = a[p]
          /\ SameChecksum(out.checksum, a, out.before, q)
          /\ Started(out.ev, q) /\ ~Copied(out.ev, q)

\* C19: after sync without dry_run and without error on an existing
\* source, every directory of the source is a directory of the target and
\* every file of the source is a file of the target with the same content
C19_Counterparts ==
    (out.op = "sync" /\ ~out.dry_run /\ out.err = "" /\ a[<<>>] # "-") =>
        \A p \in SYNC_PATHS :
            /\ a[p] = "d" => b[p] = "d"
            /\ a[p] \in DATA => b[p] = a[p]

\* C19 as the code has it: every file of the source is a file of the
\* target with the same checksum, and with the same content where sync
\* copied it or the target was no file before
C19_SameChecksum ==
    (out.op = "sync" /\ ~out.dry_run /\ out.err = "" /\ a[<<>>] # "-") =>
        \A p \in SYNC_PATHS :
            /\ a[p] = "d" => b[p] = "d"
            /\ a[p] \in DATA =>
                  /\ SameChecksum(out.checksum, a, b, p)
                  /\ (Copied(out.ev, p) \/ out.before[p] \notin DATA) => b[p] = a[p]
                  /\ ~Copied(out.ev, p) => b[p] = out.before[p]

\* a run over a directory where the target had a file, and over a file
\* where the target had a file of the same checksum and another content
C19_Witness ==
    /\ out.op = "sync" /\ ~out.dry_run /\ out.err = "" /\ a[<<>>] = "d"
    /\ \E p, q \in SYNC_PATHS :
          /\ a[p] = "d" /\ out.before[p] \in DATA /\ b[p] = "d"
          /\ a[q] \in DATA /\ out.before[q] \in DATA
          /\ out.before[q] # a[q] /\ b[q] = out.before[q]

\* the children of the target directory at p the source directory has not
Extra(s, t, p) ==
    {n \in Range(SYNC_NAMES) : Node(t, Append(p, n)) # "-" /\ Node(s, Append(p, n)) = "-"}

\* the events of one kind given for p
EventsAt(ev, event, p) == {i \in Events(ev, event) : ev[i][2] = p}

\* C20: with remove_missing, sync of a source directory against a target
\* directory removes every child of the target the source has not, whole,
\* and gives one RemovedMissing event for each, after the children of the
\* source were synced; with dry_run the child stays and the event is given;
\* without a source the whole target is removed
C20_RemoveMissing ==
    (out.op = "sync" /\ out.remove_missing) =>
        /\ \A p \in SYNC_PATHS :
              (a[p] = "d" /\ out.before[p] = "d") =>
                  /\ Cardinality(EventsAt(out.ev, "RemovedMissing", p))
                        = Cardinality(Extra(a, out.before, p))
                  /\ \A n \in Extra(a, out.before, p) :
                        \A q \in SYNC_PATHS :
                            IsPrefix(Append(p, n), q) =>
                                b[q] = (IF out.dry_run THEN out.before[q] ELSE "-")
                  /\ \A i \in EventsAt(out.ev, "RemovedMissing", p) :
                        \A n \in Range(FileUri_ls(a, p).val) :
                            \E j \in EventsAt(out.ev, "Synced", Append(p, n)) : j < i
        /\ a[<<>>] = "-" =>
              /\ Cardinality(EventsAt(out.ev, "RemovedMissing", <<>>)) = 1
              /\ b = (IF out.dry_run THEN out.before ELSE NoTree)


\* C21: sync with dry_run leaves the target tree as it was and raises
\* nothing, whatever the trees and remove_missing are
C21_DryRunFrame ==
    (out.op = "sync" /\ out.dry_run) =>
        /\ b = out.before
        /\ out.err = ""


\* the events given for p, of any kind
At(ev, p) == {i \in DOMAIN ev : ev[i][2] = p}

\* the paths right below p
ChildsOf(p) == {q \in SYNC_PATHS : q # <<>> /\ Parent(q) = p}

\* C26: for every entry sync was called for and came back from, SyncStart
\* is the first and Synced the last of its events; for a directory
\* CreatedDirectory comes before the SyncStart of every child, the Synced
\* of every child before the RemovedMissing events of the directory, and
\* these before its own Synced; a run without error ends every entry it
\* started with Synced
C26_EventOrder ==
    out.op = "sync" =>
        /\ \A p \in SYNC_PATHS :
              EventsAt(out.ev, "Synced", p) # {} =>
                  /\ Cardinality(EventsAt(out.ev, "SyncStart", p)) = 1
                  /\ Cardinality(EventsAt(out.ev, "Synced", p)) = 1
                  /\ \A s \in EventsAt(out.ev, "SyncStart", p), e \in EventsAt(out.ev, "Synced", p) :
                        /\ \A i \in At(out.ev, p) : s <= i /\ i <= e
                        /\ \A q \in ChildsOf(p) : \A i \in At(out.ev, q) : s < i /\ i < e
                  /\ \A c \in EventsAt(out.ev, "CreatedDirectory", p) :
                        \A q \in ChildsOf(p) : \A i \in EventsAt(out.ev, "SyncStart", q) : c < i
                  /\ \A r \in EventsAt(out.ev, "RemovedMissing", p) :
                        /\ \A q \in ChildsOf(p) : \A i \in EventsAt(out.ev, "Synced", q) : i < r
                        /\ \A e \in EventsAt(out.ev, "Synced", p) : r < e
        /\ out.err = "" =>
              \A p \in SYNC_PATHS :
                  /\ Started(out.ev, p) => EventsAt(out.ev, "Synced", p) # {}
                  /\ (a[<<>>] # "-" /\ a[p] # "-") => Started(out.ev, p)

\* a run that made a directory and synced a child into it, and removed a
\* child of a directory after the children of the source
C26_Witness ==
    /\ out.op = "sync" /\ out.err = ""
    /\ \E p \in SYNC_PATHS :
          /\ EventsAt(out.ev, "CreatedDirectory", p) # {}
          /\ \E q \in ChildsOf(p) : Started(out.ev, q)
    /\ \E p \in SYNC_PATHS :
          /\ EventsAt(out.ev, "RemovedMissing", p) # {}
          /\ \E q \in ChildsOf(p) : EventsAt(out.ev, "Synced", q) # {}

\* C27: on the same trees and with the same remove_missing, sync with
\* dry_run gives the events of sync without dry_run, in the same order
C27_DryRunSameEvents ==
    out.op = "sync" =>
        sync(a, out.before, TRUE, out.remove_missing, out.checksum).ev
            = sync(a, out.before, FALSE, out.remove_missing, out.checksum).ev


\* ---------------------------------------------------------------------
\* The scheme registry of UriPath
\* ---------------------------------------------------------------------
\* The classes defined under UriPath, in the order of their definition:
\* the name, the base class and the __SCHEMES of each.  UriPath itself is
\* always there and declares no scheme.
Class(name, base, declared) == [name |-> name, base |-> base, declared |-> declared]

\* the class statements a program may run
CLASSES ==
    { Class("A", "UriPath", {"s"}), Class("A", "UriPath", {"s", "t"}),
      Class("B", "A", {"s"}), Class("B", "A", {}),
      Class("C", "UriPath", {"t"}), Class("C", "UriPath", {"s"}) }

\* the classes that lookups are made on
DISPATCH == {"UriPath", "A"}

defined(tree, name) == name = "UriPath" \/ \E i \in DOMAIN tree : tree[i].name = name

\* cls._schemes(): getattr(cls, "_<name>__SCHEMES"), () when there is none
cls_schemes(tree, name) ==
    IF \E i \in DOMAIN tree : tree[i].name = name
    THEN (CHOOSE c \in Range(tree) : c.name = name).declared
    ELSE {}

\* cls.__subclasses__(): the direct subclasses, in the order of definition
subclasses(tree, name) ==
    [i \in 1..Len(SelectSeq(tree, LAMBDA c : c.base = name)) |->
        SelectSeq(tree, LAMBDA c : c.base = name)[i].name]

\* dict.update: the items of n, and those of m under other keys
dict_update(m, n) == {it \in m : \A other \in n : other[1] # it[1]} \cup n

RECURSIVE UriPath_get_schemesmap(_, _)
RECURSIVE UriPath_get_schemesmap_from(_, _, _, _)

\* cls._get_schemesmap(): the schemes of the class, then those of each
\* subclass over them
UriPath_get_schemesmap_from(tree, subs, i, schemesmap) ==
    IF i > Len(subs) THEN schemesmap
    ELSE UriPath_get_schemesmap_from(tree, subs, i + 1,
             dict_update(schemesmap, UriPath_get_schemesmap(tree, subs[i])))
UriPath_get_schemesmap(tree, name) ==
    UriPath_get_schemesmap_from(tree, subclasses(tree, name), 1,
                                {<<scheme, name>> : scheme \in cls_schemes(tree, name)})

\* the class attribute _<name>__SCHEMESMAP: None, or the mapping stored
NoCache == [set |-> FALSE, map |-> {}]
Cached(map) == [set |-> TRUE, map |-> map]

\* cls._schemesmap(reload): the stored mapping unless reload is true or
\* nothing is stored; what is computed is stored
UriPath_schemesmap_uncached(tree, cache, name, reload) ==
    Cached(UriPath_get_schemesmap(tree, name))
UriPath_schemesmap(tree, cache, name, reload) ==
    IF ~reload /\ cache[name].set THEN cache[name]
    ELSE Cached(UriPath_get_schemesmap(tree, name))

\* b: the stored mappings, and for each class the classes that were defined
\* at its first lookup or its last reload, whichever came later (not set
\* before both); out: the last call and the mapping it returned
RegOut(op, name, val) == [op |-> op, name |-> name, val |-> val]

InitRegistry ==
    /\ a = <<>>
    /\ b = [cache |-> [name \in DISPATCH |-> NoCache], at |-> [name \in DISPATCH |-> [set |-> FALSE, tree |-> <<>>]]]
    /\ out = RegOut("Uri", "UriPath", {})

\* class <name>(<base>): __SCHEMES = <declared>
Registry_class(c) ==
    /\ ~defined(a, c.name)
    /\ defined(a, c.base)
    /\ a' = Append(a, c)
    /\ out' = RegOut("class", c.name, {})
    /\ UNCHANGED b

\* <name>._schemesmap()
Registry_lookup(name) ==
    /\ defined(a, name)
    /\ b' = [cache |-> [b.cache EXCEPT ![name] = UriPath_schemesmap(a, b.cache, name, FALSE)],
             at |-> [b.at EXCEPT ![name] = IF @.set THEN @ ELSE [set |-> TRUE, tree |-> a]]]
    /\ out' = RegOut("lookup", name, UriPath_schemesmap(a, b.cache, name, FALSE).map)
    /\ UNCHANGED a

\* <name>._schemesmap(reload=True)
Registry_reload(name) ==
    /\ defined(a, name)
    /\ b' = [cache |-> [b.cache EXCEPT ![name] = UriPath_schemesmap(a, b.cache, name, TRUE)],
             at |-> [b.at EXCEPT ![name] = [set |-> TRUE, tree |-> a]]]
    /\ out' = RegOut("reload", name, UriPath_schemesmap(a, b.cache, name, TRUE).map)
    /\ UNCHANGED a

NextRegistry ==
    \/ \E c \in CLASSES : Registry_class(c)
    \/ \E name \in DISPATCH : Registry_lookup(name)
    \/ \E name \in DISPATCH : Registry_reload(name)

SpecRegistry == InitRegistry /\ [][NextRegistry]_vars

\* the classes at or below a class
RECURSIVE IsSubclass(_, _, _)
IsSubclass(tree, name, of) ==
    \/ name = of
    \/ /\ \E i \in DOMAIN tree : tree[i].name = name
       /\ IsSubclass(tree, (CHOOSE c \in Range(tree) : c.name = name).base, of)
AtOrBelow(tree, of) == {name \in {"UriPath", "A", "B", "C"} : defined(tree, name) /\ IsSubclass(tree, name, of)}

\* the mapping has one class for every scheme declared at or below the
\* class and for no other, and the class it has for a scheme declares it
\* and has no class below it that declares it too
Collected(tree, name, map) ==
    /\ {it[1] : it \in map} = UNION {cls_schemes(tree, c) : c \in AtOrBelow(tree, name)}
    /\ \A it, other \in map : it[1] = other[1] => it = other
    /\ \A it \in map :
          /\ it[2] \in AtOrBelow(tree, name)
          /\ it[1] \in cls_schemes(tree, it[2])
          /\ \A c \in AtOrBelow(tree, it[2]) : c # it[2] => it[1] \notin cls_schemes(tree, c)

\* C28: a lookup returns the mapping of the classes defined at the first
\* lookup or the last reload, whichever came later: a class defined since
\* is not in it; a reload returns the mapping of the classes defined now,
\* every declared scheme with the lowest class that declares it
C28_RegistryCache ==
    out.op \in {"lookup", "reload"} =>
        /\ Collected(b.at[out.name].tree, out.name, out.val)
        /\ out.op = "reload" => Collected(a, out.name, out.val)
        /\ b.cache[out.name] = Cached(out.val)

\* a lookup that does not see a class defined after the mapping was stored,
\* whose scheme a subclass declares over its base class
C28_Witness ==
    /\ out.op = "lookup"
    /\ b.at[out.name].tree # a
    /\ ~Collected(a, out.name, out.val)
    /\ \E it \in out.val : it[2] # out.name /\ it[1] \in cls_schemes(b.at[out.name].tree, "A") /\ it[2] = "B"

\* ---------------------------------------------------------------------
\* Uri.is_dir, Uri.is_file, Uri.exists over a backend's stat
\* ---------------------------------------------------------------------
\* what the backend raises on its own account when asked for a path: nothing,
\* PermissionError for a directory that may not be searched, ValueError for
\* a name it does not take (an embedded null byte)
FAULTS == {"", "PermissionError", "ValueError"}

\* the subclasses of OSError a file backend raises
OSERRORS ==
    {"OSError", "FileNotFoundError", "NotADirectoryError", "IsADirectoryError",
     "FileExistsError", "PermissionError"}

\* pathlib._ignore_error: the errno is ENOENT, ENOTDIR, EBADF or ELOOP
pathlib_ignore_error(err) == err \in {"FileNotFoundError", "NotADirectoryError"}

\* self.stat() of a backend that has one
Uri_stat(fs, p, fault) == IF fault # "" THEN Gave(fault, "-") ELSE FileUri_stat(fs, p)

\* Uri.is_dir, Uri.is_file, r being what stat gave and kinds the contents
\* S_ISDIR or S_ISREG holds of: an OSError is raised again unless
\* _ignore_error, a ValueError is False
Uri_is_of(r, kinds) ==
    IF r.err = "" THEN Gave("", r.val \in kinds)
    ELSE IF r.err \in OSERRORS
    THEN (IF pathlib_ignore_error(r.err) THEN Gave("", FALSE) ELSE Gave(r.err, FALSE))
    ELSE IF r.err = "ValueError" THEN Gave("", FALSE)
    ELSE Gave(r.err, FALSE)

\* PathProtocol._st_mode, 0 being FALSE
st_mode(r) ==
    IF r.err = "" THEN Gave("", TRUE)
    ELSE IF r.err \in OSERRORS
    THEN (IF pathlib_ignore_error(r.err) THEN Gave("", FALSE) ELSE Gave(r.err, FALSE))
    ELSE IF r.err = "ValueError" THEN Gave("", FALSE)
    ELSE Gave(r.err, FALSE)

\* what a predicate was asked and what it gave
StatOut(op, p, fault, stated, r) ==
    [op |-> op, p |-> p, fault |-> fault, stated |-> stated.err,
     err |-> r.err, val |-> r.val]
NoStat(op) == StatOut(op, <<>>, "", Gave("", "-"), Gave("", FALSE))

InitStat ==
    /\ a = NoTree
    /\ b = NoTree
    /\ out = NoStat("Uri")

\* path.mkdir() and path.write_bytes(data), for a new entry
Stat_mkdir(p) ==
    /\ FileUri_mkdir(a, p).err = ""
    /\ a' = FileUri_mkdir(a, p).val
    /\ out' = NoStat("mkdir")
    /\ UNCHANGED b
Stat_write(p, data) ==
    /\ Node(a, p) = "-"
    /\ FileUri_open_wb(a, p, data).err = ""
    /\ a' = FileUri_open_wb(a, p, data).val
    /\ out' = NoStat("write")
    /\ UNCHANGED b

\* path.is_dir()
Stat_is_dir(p, fault) ==
    /\ out' = StatOut("is_dir", p, fault, Uri_stat(a, p, fault),
                      Uri_is_of(Uri_stat(a, p, fault), {"d"}))
    /\ UNCHANGED <<a, b>>

\* path.is_file()
Stat_is_file(p, fault) ==
    /\ out' = StatOut("is_file", p, fault, Uri_stat(a, p, fault),
                      Uri_is_of(Uri_stat(a, p, fault), DATA))
    /\ UNCHANGED <<a, b>>

\* path.exists(), of Uri
Stat_exists(p, fault) ==
    /\ out' = StatOut("exists", p, fault, Uri_stat(a, p, fault),
                      Uri_exists_of(Uri_stat(a, p, fault)))
    /\ UNCHANGED <<a, b>>

\* path.exists(), of PathProtocol
Stat_st_mode(p, fault) ==
    /\ out' = StatOut("st_mode", p, fault, Uri_stat(a, p, fault),
                      st_mode(Uri_stat(a, p, fault)))
    /\ UNCHANGED <<a, b>>

NextStat ==
    \/ \E p \in SYNC_PATHS : Stat_mkdir(p)
    \/ \E p \in SYNC_PATHS, data \in CONTENTS : Stat_write(p, data)
    \/ \E p \in SYNC_PATHS, fault \in FAULTS : Stat_is_dir(p, fault)
    \/ \E p \in SYNC_PATHS, fault \in FAULTS : Stat_is_file(p, fault)
    \/ \E p \in SYNC_PATHS, fault \in FAULTS : Stat_exists(p, fault)
    \/ \E p \in SYNC_PATHS, fault \in FAULTS : Stat_st_mode(p, fault)

SpecStat == InitStat /\ [][NextStat]_vars

STAT_OPS == {"is_dir", "is_file", "exists", "st_mode"}

\* C25: is_dir(), is_file() and exists() never raise: when stat fails with
\* FileNotFoundError, PermissionError, another OSError or ValueError they
\* return False
C25_NeverRaise ==
    (out.op \in STAT_OPS /\ out.stated # "") => (out.err = "" /\ out.val = FALSE)

\* what holds: a stat that fails for a missing entry makes is_dir and is_file
\* return False, and so does a ValueError; exists returns False for
\* FileNotFoundError
C25_Missing ==
    /\ (out.op \in {"is_dir", "is_file", "st_mode"}
            /\ out.stated \in {"FileNotFoundError", "NotADirectoryError", "ValueError"})
          => (out.err = "" /\ out.val = FALSE)
    /\ (out.op = "exists" /\ out.stated = "FileNotFoundError")
          => (out.err = "" /\ out.val = FALSE)

\* what is raised: PermissionError by all of them, and by Uri.exists the
\* NotADirectoryError of a path below a file and the ValueError
C25_Raised ==
    (out.op \in STAT_OPS /\ out.stated # "" /\ out.err # "") =>
        /\ out.err = out.stated
        /\ \/ out.err = "PermissionError"
           \/ out.op = "exists" /\ out.err \in {"NotADirectoryError", "ValueError"}

\* ---------------------------------------------------------------------
\* Uri.rm(recursive, missing_ok, ignore_error)
\* ---------------------------------------------------------------------
\* the values of ignore_error: False, True, and callables, each known by the
\* errors it returns True for
Flag(bool) == [callable |-> FALSE, bool |-> bool, on |-> {}]
Callable(on) == [callable |-> TRUE, bool |-> FALSE, on |-> on]
IGNORE_ERROR ==
    {Flag(FALSE), Flag(TRUE), Callable({}), Callable({"FileNotFoundError"}),
     Callable(OSERRORS)}

\* _onerror(error, self), as a truth value: the lambda returns ignore_error
\* itself on both sides of its conditional, and a callable is true
onerror(ignore_error, error) ==
    IF ~ignore_error.callable THEN ignore_error.bool ELSE TRUE

\* the except clause of rm, r being what the try gave
rm_except(r, ignore_error) ==
    IF r.err # "" /\ onerror(ignore_error, r.err) THEN Gave("", r.val) ELSE r

RECURSIVE rm(_, _, _, _, _)
RECURSIVE rm_childs(_, _, _, _, _, _)

\* the loop over iterdir(): child.rm(recursive=recursive,
\* ignore_error=ignore_error), the first error that comes out ends it
rm_next(p, names, i, recursive, ignore_error, r) ==
    IF r.err # "" THEN r ELSE rm_childs(r.val, p, names, i + 1, recursive, ignore_error)
rm_childs(fs, p, names, i, recursive, ignore_error) ==
    IF i > Len(names) THEN Gave("", fs)
    ELSE rm_next(p, names, i, recursive, ignore_error,
                 rm(fs, Append(p, names[i]), recursive, FALSE, ignore_error))

\* the try of rm, found being what exists() gave
rm_try_of(fs, p, recursive, missing_ok, ignore_error, found) ==
    IF found.err # "" THEN Gave(found.err, fs)
    ELSE IF ~found.val
    THEN (IF missing_ok THEN Gave("", fs) ELSE Gave("FileNotFoundError", fs))
    ELSE IF Uri_is_dir(fs, p)
    THEN (IF recursive
          THEN Uri_rm_rmdir(p, rm_childs(fs, p, FileUri_ls(fs, p).val, 1,
                                         recursive, ignore_error))
          ELSE FileUri_rmdir(fs, p))
    ELSE FileUri_unlink(fs, p)
rm_try(fs, p, recursive, missing_ok, ignore_error) ==
    rm_try_of(fs, p, recursive, missing_ok, ignore_error, Uri_exists(fs, p))

rm(fs, p, recursive, missing_ok, ignore_error) ==
    rm_except(rm_try(fs, p, recursive, missing_ok, ignore_error), ignore_error)

\* what rm was called with, the tree before it, the error of its try and
\* the error that came out of it
RmOut(op, p, recursive, missing_ok, ignore_error, before, tried, err) ==
    [op |-> op, p |-> p, recursive |-> recursive, missing_ok |-> missing_ok,
     ignore_error |-> ignore_error, before |-> before, tried |-> tried, err |-> err]
NoRm(op) == RmOut(op, <<>>, FALSE, FALSE, Flag(FALSE), NoTree, "", "")

InitRm ==
    /\ a = NoTree
    /\ b = NoTree
    /\ out = NoRm("Uri")

\* path.mkdir() and path.write_bytes(data), for a new entry
Rm_mkdir(p) ==
    /\ FileUri_mkdir(a, p).err = ""
    /\ a' = FileUri_mkdir(a, p).val
    /\ out' = NoRm("mkdir")
    /\ UNCHANGED b
Rm_write(p, data) ==
    /\ Node(a, p) = "-"
    /\ FileUri_open_wb(a, p, data).err = ""
    /\ a' = FileUri_open_wb(a, p, data).val
    /\ out' = NoRm("write")
    /\ UNCHANGED b

\* path.rm(recursive=..., missing_ok=..., ignore_error=...)
Rm_rm(p, recursive, missing_ok, ignore_error) ==
    /\ a' = rm(a, p, recursive, missing_ok, ignore_error).val
    /\ out' = RmOut("rm", p, recursive, missing_ok, ignore_error, a,
                    rm_try(a, p, recursive, missing_ok, ignore_error).err,
                    rm(a, p, recursive, missing_ok, ignore_error).err)
    /\ UNCHANGED b

NextRm ==
    \/ \E p \in SYNC_PATHS : Rm_mkdir(p)
    \/ \E p \in SYNC_PATHS, data \in CONTENTS : Rm_write(p, data)
    \/ \E p \in SYNC_PATHS \ {<<>>}, recursive \in BOOLEAN, missing_ok \in BOOLEAN,
          ignore_error \in IGNORE_ERROR : Rm_rm(p, recursive, missing_ok, ignore_error)

SpecRm == InitRm /\ [][NextRm]_vars

\* what ignore_error says of an error: the flag, or what the callable
\* returns when called with it
Says(ignore_error, error) ==
    IF ignore_error.callable THEN error \in ignore_error.on ELSE ignore_error.bool

\* C24: an error of rm is suppressed iff ignore_error says so: never with
\* False, always with True, and with a callable iff the callable returns
\* true for that error
C24_IgnoreError ==
    (out.op = "rm" /\ out.tried # "") =>
        (out.err = "" <=> Says(out.ignore_error, out.tried))

\* what holds: False lets every error out, the FileNotFoundError of a
\* missing path included, True lets none out, and an error that comes out
\* is the error of the try
C24_Flags ==
    (out.op = "rm" /\ out.tried # "") =>
        /\ out.err \in {"", out.tried}
        /\ ~out.ignore_error.callable => (out.err = "" <=> out.ignore_error.bool)
        /\ (out.ignore_error = Flag(FALSE) /\ Node(out.before, out.p) = "-"
                /\ ~out.missing_ok) => out.err \in {"FileNotFoundError", "NotADirectoryError"}

\* what the code does with a callable: no error comes out, whatever the
\* callable returns
C24_CallableSuppresses ==
    (out.op = "rm" /\ out.ignore_error.callable) => out.err = ""

\* ---------------------------------------------------------------------
\* Uri.mkdir(mode, parents, exist_ok) over a backend's _mkdir
\* ---------------------------------------------------------------------
\* the calls of mkdir that may be nested before the interpreter gives up
MaxRecursion == 8

\* a tree and the directories made in it so far, in the order they were made
Made(fs, made) == [fs |-> fs, made |-> made]

\* self._mkdir(mode) of a backend that has one: the directory is made when
\* its parent is there and it is not; gone: the root of the backend is not
\* there, and no path under it is found
Uri_mkdir_(st, p, gone) ==
    IF gone THEN Gave("FileNotFoundError", st)
    ELSE IF FileUri_mkdir(st.fs, p).err # "" THEN Gave(FileUri_mkdir(st.fs, p).err, st)
    ELSE Gave("", Made(FileUri_mkdir(st.fs, p).val, Append(st.made, p)))

\* self.parent: the path itself where posixpath.parent is posixpath
Uri_parent(p) == IF Parent(p) = p THEN p ELSE Parent(p)

\* the re-raise without the test of the parent
mkdir_raise_unless_parents(p, parents) == ~parents

\* `if not parents or self.parent == self: raise`
mkdir_raise(p, parents) == ~parents \/ Uri_parent(p) = p

RECURSIVE Uri_mkdir(_, _, _, _, _, _)

\* self.mkdir(mode, parents=False, exist_ok=exist_ok), r being what
\* self.parent.mkdir(parents=True, exist_ok=True) gave
Uri_mkdir_again(p, exist_ok, gone, depth, r) ==
    IF r.err # "" THEN r ELSE Uri_mkdir(r.val, p, FALSE, exist_ok, gone, depth + 1)

\* the except clauses of mkdir, r being what _mkdir gave
Uri_mkdir_of(st, p, parents, exist_ok, gone, depth, r) ==
    IF r.err = "" THEN r
    ELSE IF r.err = "FileNotFoundError"
    THEN (IF mkdir_raise(p, parents) THEN r
          ELSE Uri_mkdir_again(p, exist_ok, gone, depth,
                               Uri_mkdir(st, Uri_parent(p), TRUE, TRUE, gone, depth + 1)))
    ELSE IF r.err \in OSERRORS
    THEN (IF ~exist_ok THEN r
          ELSE IF Uri_is_of(Uri_stat(st.fs, p, ""), {"d"}).err # ""
          THEN Gave(Uri_is_of(Uri_stat(st.fs, p, ""), {"d"}).err, st)
          ELSE IF ~Uri_is_of(Uri_stat(st.fs, p, ""), {"d"}).val THEN r
          ELSE Gave("", st))
    ELSE r

Uri_mkdir(st, p, parents, exist_ok, gone, depth) ==
    IF depth > MaxRecursion THEN Gave("RecursionError", st)
    ELSE Uri_mkdir_of(st, p, parents, exist_ok, gone, depth, Uri_mkdir_(st, p, gone))

\* what mkdir was called with, the tree before it, the directories it made
\* and the error that came out of it
MkdirOut(op, p, parents, exist_ok, gone, before, r) ==
    [op |-> op, p |-> p, parents |-> parents, exist_ok |-> exist_ok, gone |-> gone,
     before |-> before, made |-> r.val.made, err |-> r.err]
NoMkdir(op) ==
    MkdirOut(op, <<>>, FALSE, FALSE, FALSE, NoTree, Gave("", Made(NoTree, <<>>)))


\* the tree of a backend whose root "/" is there and empty
RootTree == [NoTree EXCEPT ![<<>>] = "d"]

InitMkdir ==
    /\ a = RootTree
    /\ b = NoTree
    /\ out = NoMkdir("Uri")

\* path.write_bytes(data), for a new entry; path.rmdir() and path.unlink()
Mkdir_write(p, data) ==
    /\ Node(a, p) = "-"
    /\ FileUri_open_wb(a, p, data).err = ""
    /\ a' = FileUri_open_wb(a, p, data).val
    /\ out' = NoMkdir("write")
    /\ UNCHANGED b
Mkdir_rmdir(p) ==
    /\ p # <<>>
    /\ FileUri_rmdir(a, p).err = ""
    /\ a' = FileUri_rmdir(a, p).val
    /\ out' = NoMkdir("rmdir")
    /\ UNCHANGED b
Mkdir_unlink(p) ==
    /\ FileUri_unlink(a, p).err = ""
    /\ a' = FileUri_unlink(a, p).val
    /\ out' = NoMkdir("unlink")
    /\ UNCHANGED b

\* path.mkdir(parents=..., exist_ok=...); the root of the backend can be
\* gone only while nothing is in it
Mkdir_mkdir(p, parents, exist_ok, gone) ==
    /\ gone => a = RootTree
    /\ a' = Uri_mkdir(Made(a, <<>>), p, parents, exist_ok, gone, 1).val.fs
    /\ out' = MkdirOut("mkdir", p, parents, exist_ok, gone, a,
                       Uri_mkdir(Made(a, <<>>), p, parents, exist_ok, gone, 1))
    /\ UNCHANGED b

NextMkdir ==
    \/ \E p \in SYNC_PATHS, data \in CONTENTS : Mkdir_write(p, data)
    \/ \E p \in SYNC_PATHS : Mkdir_rmdir(p)
    \/ \E p \in SYNC_PATHS : Mkdir_unlink(p)
    \/ \E p \in SYNC_PATHS, parents \in BOOLEAN, exist_ok \in BOOLEAN, gone \in BOOLEAN :
          Mkdir_mkdir(p, parents, exist_ok, gone)

SpecMkdir == InitMkdir /\ [][NextMkdir]_vars

\* the path and its ancestors that are not in the tree, from the top down
RECURSIVE Missing(_, _, _)
Missing(fs, p, k) ==
    IF k > Len(p) THEN <<>>
    ELSE IF Node(fs, SubSeq(p, 1, k)) = "-"
    THEN <<SubSeq(p, 1, k)>> \o Missing(fs, p, k + 1)
    ELSE Missing(fs, p, k + 1)

\* the tree with the directories of a sequence of paths added
WithDirs(fs, ps) == [q \in DOMAIN fs |-> IF \E i \in DOMAIN ps : ps[i] = q THEN "d" ELSE fs[q]]

\* C29: mkdir(parents=True) of a path that is not there, below no file,
\* makes the missing ancestors from the top down and then the path; mkdir
\* always returns or raises, and where the root is gone it raises
\* FileNotFoundError at the path whose parent is itself; with parents=False
\* and the parent missing it raises FileNotFoundError and makes nothing; a
\* directory that is there is an error unless exist_ok
C29_MkdirParents ==
    out.op = "mkdir" =>
        /\ out.err # "RecursionError"
        /\ a = WithDirs(out.before, out.made)
        /\ (out.parents /\ ~out.gone /\ Node(out.before, out.p) = "-"
                /\ ~UnderFile(out.before, out.p)) =>
              /\ out.err = ""
              /\ out.made = Missing(out.before, out.p, 1)
              /\ Node(a, out.p) = "d"
        /\ out.gone => (out.err = "FileNotFoundError" /\ out.made = <<>>)
        /\ (~out.parents /\ ~out.gone /\ Node(out.before, Parent(out.p)) = "-"
                /\ ~UnderFile(out.before, out.p)) =>
              (out.err = "FileNotFoundError" /\ a = out.before)
        /\ (~out.gone /\ Node(out.before, out.p) = "d") =>
              /\ out.err = (IF out.exist_ok THEN "" ELSE "FileExistsError")
              /\ a = out.before

\* two missing ancestors are made before the path, the upper one first
C29_Witness ==
    /\ out.op = "mkdir" /\ out.parents /\ out.p = <<"f", "f">>
    /\ Node(out.before, <<"f">>) = "-"
    /\ out.made = << <<"f">>, <<"f", "f">> >>
    /\ out.err = ""

\* the root is gone: the recursion over the parents ends at the root
C29_WitnessRoot ==
    /\ out.op = "mkdir" /\ out.parents /\ out.gone /\ out.p = <<"f", "f">>
    /\ out.err = "FileNotFoundError"

\* ---------------------------------------------------------------------
\* Uri.copy and Uri.move between two source identities
\* ---------------------------------------------------------------------
\* Two backends, "a" and "b", each with the tree under its root "/", and the
\* log of what was done to them.  A Uri is known by the side its source
\* names, "" when it has no scheme, and by its path.
COPY_PATHS == {<<>>, <<"f">>, <<"g">>, <<"f", "f">>, <<"g", "f">>}
CopyTree == [p \in COPY_PATHS |-> IF p = <<>> THEN "d" ELSE "-"]
World(ta, tb, log) == [a |-> ta, b |-> tb, log |-> log]
Loc(side, p) == [at |-> side, p |-> p]
Did_(w, do, u) == Append(w.log, [do |-> do, at |-> u.at, p |-> u.p])
Put(w, u, fs, do) ==
    IF u.at = "a" THEN World(fs, w.b, Did_(w, do, u)) ELSE World(w.a, fs, Did_(w, do, u))

\* Uri._src_dest: a Uri without a source takes the source of the other one,
\* FileNotFoundError when neither has one; (None, None) for the same source
\* and path
src_dest_src(src, target) == IF src.at = "" THEN Loc(target.at, src.p) ELSE src
src_dest_target(src, target) == IF target.at = "" THEN Loc(src.at, target.p) ELSE target
src_dest(src, target) ==
    IF src.at = "" /\ target.at = "" THEN Gave("FileNotFoundError", <<>>)
    ELSE IF src_dest_src(src, target) = src_dest_target(src, target) THEN Gave("", <<>>)
    ELSE Gave("", <<src_dest_src(src, target), src_dest_target(src, target)>>)

\* target.unlink(), when the target is there and overwrite is true
copy_unlink(w, target) ==
    IF FileUri_unlink(w[target.at], target.p).err # ""
    THEN Gave(FileUri_unlink(w[target.at], target.p).err, w)
    ELSE Gave("", Put(w, target, FileUri_unlink(w[target.at], target.p).val, "unlink"))

\* the test of the target with the unlink whatever overwrite is
copy_exists_overwriting(w, target, overwrite, found) ==
    IF found.err # "" THEN Gave(found.err, w)
    ELSE IF ~found.val THEN Gave("", w)
    ELSE copy_unlink(w, target)

\* `if target.exists(): if overwrite: target.unlink() else: raise
\* FileExistsError(target)`, found being what exists() gave
copy_exists_of(w, target, overwrite, found) ==
    IF found.err # "" THEN Gave(found.err, w)
    ELSE IF ~found.val THEN Gave("", w)
    ELSE IF overwrite THEN copy_unlink(w, target)
    ELSE Gave("FileExistsError", w)
copy_exists(w, target, overwrite) ==
    copy_exists_of(w, target, overwrite, Uri_exists(w[target.at], target.p))

\* `with target.open("wb") as output, src.open("rb") as input:
\* copyfileobj(input, output)`: the target is opened, and so made or
\* emptied, before the source is opened
copy_data(w, src, target) ==
    IF FileUri_open_wb(w[target.at], target.p, NODATA).err # ""
    THEN Gave(FileUri_open_wb(w[target.at], target.p, NODATA).err, w)
    ELSE IF Node(w[src.at], src.p) = "d"
    THEN Gave("IsADirectoryError",
              Put(w, target, FileUri_open_wb(w[target.at], target.p, NODATA).val, "open"))
    ELSE Gave("", Put(w, target,
                      FileUri_open_wb(w[target.at], target.p, Node(w[src.at], src.p)).val,
                      "write"))

\* the rest of copy after _src_dest, r being what the test of the target
\* gave: src.stat(), the data, target.chmod(stat.st_mode)
copy_of(src, target, r) ==
    IF r.err # "" THEN r
    ELSE IF FileUri_stat(r.val[src.at], src.p).err # ""
    THEN Gave(FileUri_stat(r.val[src.at], src.p).err, r.val)
    ELSE copy_data(r.val, src, target)

\* Uri.copy(target, overwrite=...), sd being what _src_dest gave
copy_from(w, overwrite, sd) ==
    IF sd.err # "" THEN Gave(sd.err, w)
    ELSE IF sd.val = <<>> THEN Gave("", w)
    ELSE copy_of(sd.val[1], sd.val[2], copy_exists(w, sd.val[2], overwrite))
copy(w, src, target, overwrite) == copy_from(w, overwrite, src_dest(src, target))

\* the entries of a tree at and below a path
AtOrUnder(p, q) == Len(q) >= Len(p) /\ SubSeq(q, 1, Len(p)) = p
Moved(p, target, q) == target \o SubSeq(q, Len(p) + 1, Len(q))

\* FileUri._rename(target): os.rename to a path that is not there, the
\* entries below a directory going with it
FileUri_rename(fs, p, target) ==
    IF Node(fs, p) = "-" THEN Gave(NoEntry(fs, p), fs)
    ELSE IF ~InDirectory(fs, target) THEN Gave(NoEntry(fs, target), fs)
    ELSE IF AtOrUnder(p, target) THEN Gave("OSError", fs)
    ELSE Gave("", [q \in DOMAIN fs |->
                      IF AtOrUnder(target, q)
                      THEN Node(fs, Moved(target, p, q))
                      ELSE IF AtOrUnder(p, q) THEN "-" ELSE fs[q]])

\* src._rename(target.posixpath); has_rename: the class of src defines
\* _rename, the one it inherits being notimplemented, called here with the
\* target
move_rename(w, src, target, has_rename) ==
    IF ~has_rename THEN Gave(notimplemented(HasName(src), 1).err, w)
    ELSE IF FileUri_rename(w[src.at], src.p, target.p).err # ""
    THEN Gave(FileUri_rename(w[src.at], src.p, target.p).err, w)
    ELSE Gave("", Put(w, src, FileUri_rename(w[src.at], src.p, target.p).val, "rename"))

\* src.unlink() after src.copy(target), r being what the copy gave
move_unlink(src, r) ==
    IF r.err # "" THEN r
    ELSE IF FileUri_unlink(r.val[src.at], src.p).err # ""
    THEN Gave(FileUri_unlink(r.val[src.at], src.p).err, r.val)
    ELSE Gave("", Put(r.val, src, FileUri_unlink(r.val[src.at], src.p).val, "unlink"))

\* the rest of move after the test of the target, r being what that gave:
\* the rename for one source, the NotImplementedError of which falls
\* through to src.copy(target) and src.unlink()
move_of(src, target, has_rename, r) ==
    IF r.err # "" THEN r
    ELSE IF target.at = src.at
            /\ move_rename(r.val, src, target, has_rename).err # "NotImplementedError"
    THEN move_rename(r.val, src, target, has_rename)
    ELSE move_unlink(src, copy(r.val, src, target, FALSE))

\* Uri.move(target, overwrite=...), sd being what _src_dest gave
move_from(w, overwrite, has_rename, sd) ==
    IF sd.err # "" THEN Gave(sd.err, w)
    ELSE IF sd.val = <<>> THEN Gave("", w)
    ELSE move_of(sd.val[1], sd.val[2], has_rename, copy_exists(w, sd.val[2], overwrite))
move(w, src, target, overwrite, has_rename) ==
    move_from(w, overwrite, has_rename, src_dest(src, target))


\* what copy or move was called with, the two trees before it, the trees
\* after it with what it did, and the error that came out of it
CopyOut(op, src, target, overwrite, has_rename, before, r) ==
    [op |-> op, src |-> src, target |-> target, overwrite |-> overwrite,
     has_rename |-> has_rename, before |-> before, after |-> r.val, err |-> r.err]
NoCopy(op) ==
    CopyOut(op, Loc("a", <<>>), Loc("a", <<>>), FALSE, TRUE, World(CopyTree, CopyTree, <<>>),
            Gave("", World(CopyTree, CopyTree, <<>>)))

COPY_SRCS == {Loc("a", <<"f">>), Loc("", <<"f">>)}
COPY_TARGETS ==
    {Loc("a", <<"f">>), Loc("a", <<"g">>), Loc("a", <<"f", "f">>), Loc("b", <<"f">>),
     Loc("", <<"g">>)}

\* what is written to a new file: "x" at and below "f", "y" elsewhere
NewData(p) == IF AtOrUnder(<<"f">>, p) THEN "x" ELSE "y"

\* the entries that go with a renamed directory have a place in the tree
Fits(fs, p, target) ==
    \A q \in DOMAIN fs :
        (AtOrUnder(p, q) /\ fs[q] # "-") => Moved(p, target, q) \in DOMAIN fs

InitCopy ==
    /\ a = CopyTree
    /\ b = CopyTree
    /\ out = NoCopy("Uri")

\* path.mkdir() for "f" and path.write_bytes(data) for a new entry of the
\* one backend, and for the entry "f" of the other
Copy_mkdir ==
    /\ FileUri_mkdir(a, <<"f">>).err = ""
    /\ a' = FileUri_mkdir(a, <<"f">>).val
    /\ out' = NoCopy("mkdir")
    /\ UNCHANGED b
Copy_write(p) ==
    /\ Node(a, p) = "-"
    /\ FileUri_open_wb(a, p, NewData(p)).err = ""
    /\ a' = FileUri_open_wb(a, p, NewData(p)).val
    /\ out' = NoCopy("write")
    /\ UNCHANGED b
Copy_other_mkdir ==
    /\ FileUri_mkdir(b, <<"f">>).err = ""
    /\ b' = FileUri_mkdir(b, <<"f">>).val
    /\ out' = NoCopy("mkdir")
    /\ UNCHANGED a
Copy_other_write ==
    /\ Node(b, <<"f">>) = "-"
    /\ b' = FileUri_open_wb(b, <<"f">>, NewData(<<"g">>)).val
    /\ out' = NoCopy("write")
    /\ UNCHANGED a

\* src.copy(target, overwrite=...)
Copy_copy(src, target, overwrite) ==
    /\ out' = CopyOut("copy", src, target, overwrite, TRUE, World(a, b, <<>>),
                      copy(World(a, b, <<>>), src, target, overwrite))
    /\ a' = out'.after.a
    /\ b' = out'.after.b

\* src.move(target, overwrite=...), of a class that has _rename or has not
Copy_move(src, target, overwrite, has_rename) ==
    /\ src_dest(src, target).val # <<>> =>
          Fits(World(a, b, <<>>)[src_dest(src, target).val[1].at],
               src_dest(src, target).val[1].p, src_dest(src, target).val[2].p)
    /\ out' = CopyOut("move", src, target, overwrite, has_rename, World(a, b, <<>>),
                      move(World(a, b, <<>>), src, target, overwrite, has_rename))
    /\ a' = out'.after.a
    /\ b' = out'.after.b

NextCopy ==
    \/ Copy_mkdir
    \/ \E p \in {<<"f">>, <<"g">>, <<"f", "f">>} : Copy_write(p)
    \/ Copy_other_mkdir
    \/ Copy_other_write
    \/ \E src \in COPY_SRCS, target \in COPY_TARGETS, overwrite \in BOOLEAN :
          Copy_copy(src, target, overwrite)
    \/ \E src \in COPY_SRCS, target \in COPY_TARGETS, overwrite \in BOOLEAN,
          has_rename \in BOOLEAN : Copy_move(src, target, overwrite, has_rename)

SpecCopy == InitCopy /\ [][NextCopy]_vars


\* the source and the target of the last copy or move, as _src_dest gives
\* them
CopySrc == src_dest_src(out.src, out.target)
CopyTarget == src_dest_target(out.src, out.target)
TargetThere == CopyTarget.at # "" /\ Node(out.before[CopyTarget.at], CopyTarget.p) # "-"
SameTrees == out.after.a = out.before.a /\ out.after.b = out.before.b

\* the target was unlinked before anything was written, opened for writing
\* or renamed
UnlinkedFirst ==
    \A i \in DOMAIN out.after.log :
        out.after.log[i].do \in {"write", "open", "rename"} =>
            \E j \in 1..(i - 1) :
                out.after.log[j] = [do |-> "unlink", at |-> CopyTarget.at, p |-> CopyTarget.p]

C22_WitnessOverwrite ==
    /\ out.op = "move" /\ out.overwrite /\ out.err = ""
    /\ CopySrc = Loc("a", <<"f">>) /\ CopyTarget = Loc("b", <<"f">>)
    /\ out.before.b[<<"f">>] = "y" /\ out.after.b[<<"f">>] = "x"
    /\ Len(out.after.log) = 3

\* an existing file is copied onto itself without overwrite
C22_WitnessSame ==
    /\ out.op = "copy" /\ ~out.overwrite /\ TargetThere
    /\ CopySrc = CopyTarget
    /\ out.err = ""


\* what the log holds for the source and the target of the last move
LogAt(do, u) == {i \in DOMAIN out.after.log :
                    out.after.log[i] = [do |-> do, at |-> u.at, p |-> u.p]}
Renamed == LogAt("rename", CopySrc) # {}

\* the move was given a source and a target that are two places
MoveOfTwo ==
    /\ out.op = "move"
    /\ out.src.at # "" \/ out.target.at # ""
    /\ CopySrc # CopyTarget

\* a file that can be moved: the source is a file, the target is not there
\* and the directory it goes to is
MovableFile ==
    /\ Node(out.before[CopySrc.at], CopySrc.p) \in DATA
    /\ Node(out.before[CopyTarget.at], CopyTarget.p) = "-"
    /\ InDirectory(out.before[CopyTarget.at], CopyTarget.p)

\* after a move that returned the source is gone and the target has what
\* the source had
MovedOver ==
    /\ Node(out.after[CopySrc.at], CopySrc.p) = "-"
    /\ Node(out.after[CopyTarget.at], CopyTarget.p)
           = Node(out.before[CopySrc.at], CopySrc.p)

\* the source is unlinked only after the target was written
CopiedFirst ==
    \A i \in LogAt("unlink", CopySrc) : \E j \in LogAt("write", CopyTarget) : j < i

\* C23: move renames only within one source identity; when the class has
\* no rename, or the identities differ, it copies and then unlinks the
\* source; after every move that returns the source is gone and the target
\* holds its content; the source is never unlinked before the copy is done
C23_Move ==
    (out.op = "move" /\ (out.src.at # "" \/ out.target.at # "")) =>
        /\ Renamed => CopySrc.at = CopyTarget.at
        /\ (CopySrc # CopyTarget /\ MovableFile
                /\ (~out.has_rename \/ CopySrc.at # CopyTarget.at)) =>
              /\ out.err = ""
              /\ LogAt("write", CopyTarget) # {} /\ LogAt("unlink", CopySrc) # {}
        /\ out.err = "" => MovedOver
        /\ CopiedFirst

\* what holds of a move between two places: a rename only within one source
\* identity, and then nothing else; a return only with the source gone and
\* the target holding its content; no unlink of the source before the write
\* of the target; between two identities a movable file is copied and
\* unlinked
C23_MoveOfTwo ==
    MoveOfTwo =>
        /\ Renamed => (CopySrc.at = CopyTarget.at /\ out.has_rename
                          /\ LogAt("write", CopyTarget) = {})
        /\ (MovableFile /\ CopySrc.at # CopyTarget.at) =>
              (out.err = "" /\ LogAt("write", CopyTarget) # {}
                   /\ LogAt("unlink", CopySrc) # {})
        /\ out.err = "" => MovedOver
        /\ CopiedFirst

\* what the code does within one source identity for a class without
\* _rename: the notimplemented _rename is called with the target and raises
\* TypeError, nothing is copied and nothing is unlinked
C23_NoRename ==
    (MoveOfTwo /\ ~out.has_rename /\ CopySrc.at = CopyTarget.at /\ MovableFile) =>
        /\ out.err = "TypeError"
        /\ out.after.log = <<>>
        /\ SameTrees

\* a path moved onto itself: the move returns and the source is still there
C23_MoveOntoItself ==
    /\ out.op = "move" /\ out.err = ""
    /\ CopySrc = CopyTarget
    /\ Node(out.after[CopySrc.at], CopySrc.p) = "x"

\* a file of a class without _rename is moved within its backend
C23_NoRenameReached ==
    /\ MoveOfTwo /\ ~out.has_rename /\ CopySrc.at = CopyTarget.at /\ MovableFile
    /\ out.err = "TypeError"

====
